---- MODULE Spec2Model ----
(***************************************************************************)
(* State-machine model of the MonadMines contract                          *)
(* (src/contracts/EntropyTest.sol, lines 68-589).                          *)
(*                                                                         *)
(* Every external function is one action.  A call whose require-chain      *)
(* fails reverts, so it leaves the storage as it was: the action is then   *)
(* disabled and the message of the failing require is given by the         *)
(* operator <function>Err, translated require by require in source order.  *)
(* keccak256 is modelled by fixed arithmetic mixing functions that are     *)
(* collision-free and non-zero on the modelled inputs.                     *)
(***************************************************************************)
EXTENDS Integers, FiniteSets, Sequences, TLC

\* ------------------------------------------------------------- bounds
\* number of 24h periods the clock may advance
MaxTicks == 1

\* ------------------------------------------------- program constants
BASE_DIVISOR == 10000
PARAM_CHANGE_DELAY == 86400
MIN_MINE_PROBABILITY == 100
MAX_MINE_PROBABILITY == 5000
MIN_REWARD_MULTIPLIER == 10000
MAX_REWARD_MULTIPLIER == 20000
InitialMineProbability == 2000
InitialRewardMultiplier == 12000
GridSize == 10
ResidueBase == 10000
ZeroAddress == 0
ZeroBytes32 == 0
Owner == 1
PythFee == 1

\* ------------------------------------------------------ modelled inputs
Addresses == {1, 2, 3}
AllAddresses == {ZeroAddress} \cup Addresses
\* identities that place wagers
Players == {2}
\* identities offered as session keys (besides the zero address and the caller)
SessionKeys == {3}
GameIds == {1, 2}
Nonces == {0, 1, 2}
RandomNumbers == {1}
Wagers == {0, 10}
\* (x, y) pairs offered to revealCell: two cells of the grid, one pair with
\* x out of range and one with y out of range
CellInputs == {<<0, 1>>, <<1, 0>>, <<10, 0>>, <<0, 10>>}
\* the inputs of CellInputs that lie on the grid
ValidCells == {xy \in CellInputs : xy[1] < GridSize /\ xy[2] < GridSize}
MineProposals == {99, 3000}
MultiplierProposals == {9999, 10000, 20001}

\* ------------------------------------------------------------- hashing
\* keccak256(abi.encodePacked(nonce))
KeccakNonce(nonce) == ((nonce * 7 + 3) % 11) + 1
\* keccak256(abi.encodePacked(pythSeed, nonce, player))
KeccakSeed(pythSeed, nonce, player) == 1 + ((pythSeed * 57 + nonce * 32 + player * 27) % 97)
\* uint256(keccak256(abi.encodePacked(seed, x, y)))
KeccakCell(seed, x, y) == (seed * 4391 + x * 8111 + y * 5237 + 7919) % 100003

Commitments == {KeccakNonce(0), KeccakNonce(1)}

VARIABLES games, sessionDelegates, MINE_PROBABILITY, REWARD_MULTIPLIER,
          pendingMineProbability, pendingRewardMultiplier, now, balance,
          pendingRequests, payouts, frame, client

vars == <<games, sessionDelegates, MINE_PROBABILITY, REWARD_MULTIPLIER,
          pendingMineProbability, pendingRewardMultiplier, now, balance,
          pendingRequests, payouts, frame, client>>

gameVars == <<games, balance, pendingRequests, payouts>>
govVars == <<MINE_PROBABILITY, REWARD_MULTIPLIER, pendingMineProbability,
             pendingRewardMultiplier>>
\* frame is the cashOut call whose value transfer is executing (the contract
\* is inside nonReentrant), client the state of the web client's start flow
auxVars == <<frame, client>>

\* a storage slot of the games mapping that was never written
EmptyGame == [player |-> ZeroAddress, currentPot |-> 0, seed |-> ZeroBytes32,
              pythSeed |-> ZeroBytes32, playerNonce |-> ZeroBytes32,
              nonceCommit |-> ZeroBytes32, revealedCells |-> 0,
              isActive |-> FALSE, isLost |-> FALSE, nonceRevealed |-> FALSE]

NoPendingChange == [newValue |-> 0, changeTime |-> 0]
\* ReentrancyGuard's status NOT_ENTERED: no call is executing
NoFrame == [gameId |-> 0]
\* useState<Hex | null>(null)
NullNonce == -1
\* the client before startGame is clicked
IdleClient == [status |-> "idle", id |-> 0, currentNonce |-> NullNonce,
               watching |-> FALSE, gameStartedReceived |-> FALSE,
               polling |-> FALSE, reading |-> FALSE, cancelled |-> FALSE,
               attempts |-> 0]

\* ------------------------------------------------------------ bitmap
\* (mask & (1 << i)) != 0
BitSet(mask, i) == (mask \div (2 ^ i)) % 2 = 1
\* mask | (1 << i)
BitOr(mask, i) == IF BitSet(mask, i) THEN mask ELSE mask + 2 ^ i
\* uint256(y) * 10 + uint256(x)
cellIndex(x, y) == y * GridSize + x

Init ==
    /\ games = [g \in GameIds |-> EmptyGame]
    /\ sessionDelegates = [a \in AllAddresses |-> ZeroAddress]
    /\ MINE_PROBABILITY = InitialMineProbability
    /\ REWARD_MULTIPLIER = InitialRewardMultiplier
    /\ pendingMineProbability = NoPendingChange
    /\ pendingRewardMultiplier = NoPendingChange
    /\ now = 1
    /\ balance = 0
    /\ pendingRequests = {}
    /\ payouts = [g \in GameIds |-> <<>>]
    /\ frame = NoFrame
    /\ client = IdleClient

\* ---------------------------------------------- 1. session key management
\* registerSessionKey without require(_sessionKey != msg.sender)
registerSessionKeyErrNoSelfCheck(caller, sessionKey) ==
    IF sessionKey = ZeroAddress THEN "Session key cannot be zero" ELSE "ok"

registerSessionKeyErr(caller, sessionKey) ==
    IF sessionKey = ZeroAddress THEN "Session key cannot be zero"
    ELSE IF sessionKey = caller THEN "Cannot delegate to self"
    ELSE "ok"

registerSessionKey(caller, sessionKey) ==
    /\ registerSessionKeyErr(caller, sessionKey) = "ok"
    /\ sessionDelegates' = [sessionDelegates EXCEPT ![sessionKey] = caller]
    /\ UNCHANGED <<auxVars, gameVars, govVars, now>>

\* revokeSessionKey that only requires the key to be registered
revokeSessionKeyErrAnyEntry(caller, sessionKey) ==
    IF sessionDelegates[sessionKey] = ZeroAddress THEN "Not your session key" ELSE "ok"

revokeSessionKeyErr(caller, sessionKey) ==
    IF sessionDelegates[sessionKey] # caller THEN "Not your session key" ELSE "ok"

revokeSessionKey(caller, sessionKey) ==
    /\ revokeSessionKeyErr(caller, sessionKey) = "ok"
    /\ sessionDelegates' = [sessionDelegates EXCEPT ![sessionKey] = ZeroAddress]
    /\ UNCHANGED <<auxVars, gameVars, govVars, now>>

\* isAuthorized that only requires the game to exist
isAuthorizedErrAnyCaller(gm, caller) ==
    IF gm.player = ZeroAddress THEN "Game does not exist" ELSE "ok"

\* isAuthorized that accepts a key registered to any address
isAuthorizedErrAnyDelegate(gm, caller) ==
    IF gm.player = ZeroAddress THEN "Game does not exist"
    ELSE IF ~(caller = gm.player \/ sessionDelegates[caller] # ZeroAddress)
         THEN "Not authorized: Only Player or SessionKey"
    ELSE "ok"

\* modifier isAuthorized(gameId)
isAuthorizedErr(gm, caller) ==
    IF gm.player = ZeroAddress THEN "Game does not exist"
    ELSE IF ~(caller = gm.player \/ sessionDelegates[caller] = gm.player)
         THEN "Not authorized: Only Player or SessionKey"
    ELSE "ok"

\* ------------------------------------------------------- 2. game start
\* msgValue is msg.value, sequenceNumber the id returned by entropy.requestV2
\* startGame without require(games[sequenceNumber].player == address(0))
startGameErrNoDuplicateCheck(msgValue, sequenceNumber) ==
    IF ~(msgValue > PythFee) THEN "Sent value must cover fee + bet"
    ELSE IF ~(msgValue - PythFee > 0) THEN "Bet must be greater than zero"
    ELSE "ok"

startGameErr(msgValue, sequenceNumber) ==
    IF ~(msgValue > PythFee) THEN "Sent value must cover fee + bet"
    ELSE IF ~(msgValue - PythFee > 0) THEN "Bet must be greater than zero"
    ELSE IF games[sequenceNumber].player # ZeroAddress THEN "Game ID already exists"
    ELSE "ok"

\* a game record whose pot is the whole value sent, fee included
newGameKeepsFee(caller, betAmount, nonceCommit) ==
    [player |-> caller, currentPot |-> betAmount + PythFee, seed |-> ZeroBytes32,
     pythSeed |-> ZeroBytes32, playerNonce |-> ZeroBytes32,
     nonceCommit |-> nonceCommit, revealedCells |-> 0,
     isActive |-> TRUE, isLost |-> FALSE, nonceRevealed |-> FALSE]

newGame(caller, betAmount, nonceCommit) ==
    [player |-> caller, currentPot |-> betAmount, seed |-> ZeroBytes32,
     pythSeed |-> ZeroBytes32, playerNonce |-> ZeroBytes32,
     nonceCommit |-> nonceCommit, revealedCells |-> 0,
     isActive |-> TRUE, isLost |-> FALSE, nonceRevealed |-> FALSE]

\* startGame that, on a duplicate id, keeps the bet and the request it made
startGameChargesOnDuplicate(caller, msgValue, nonceCommit, sequenceNumber) ==
    /\ startGameErr(msgValue, sequenceNumber) \in {"ok", "Game ID already exists"}
    /\ games' = IF startGameErr(msgValue, sequenceNumber) = "ok"
                THEN [games EXCEPT ![sequenceNumber] =
                         newGame(caller, msgValue - PythFee, nonceCommit)]
                ELSE games
    /\ balance' = balance + (msgValue - PythFee)
    /\ pendingRequests' = pendingRequests \cup {sequenceNumber}
    /\ UNCHANGED <<auxVars, sessionDelegates, govVars, now, payouts>>

startGame(caller, msgValue, nonceCommit, sequenceNumber) ==
    /\ startGameErr(msgValue, sequenceNumber) = "ok"
    /\ games' = [games EXCEPT ![sequenceNumber] =
                    newGame(caller, msgValue - PythFee, nonceCommit)]
    /\ balance' = balance + (msgValue - PythFee)
    /\ pendingRequests' = pendingRequests \cup {sequenceNumber}
    /\ UNCHANGED <<auxVars, sessionDelegates, govVars, now, payouts>>

\* a callback that stores the random number in every game
entropyCallbackAllGames(sequenceNumber, randomNumber) ==
    /\ sequenceNumber \in pendingRequests
    /\ games' = [g \in GameIds |-> [games[g] EXCEPT !.pythSeed = randomNumber]]
    /\ pendingRequests' = pendingRequests \ {sequenceNumber}
    /\ UNCHANGED <<auxVars, sessionDelegates, govVars, now, balance, payouts>>

\* The gateway fulfils each outstanding request once, with a non-zero value.
entropyCallback(sequenceNumber, randomNumber) ==
    /\ sequenceNumber \in pendingRequests
    /\ games' = [games EXCEPT ![sequenceNumber].pythSeed = randomNumber]
    /\ pendingRequests' = pendingRequests \ {sequenceNumber}
    /\ UNCHANGED <<auxVars, sessionDelegates, govVars, now, balance, payouts>>

\* revealNonce without require(game.pythSeed != bytes32(0))
revealNonceErrNoSeedCheck(gm, caller, nonce) ==
    IF isAuthorizedErr(gm, caller) # "ok" THEN isAuthorizedErr(gm, caller)
    ELSE IF ~gm.isActive THEN "Game finished"
    ELSE IF gm.nonceRevealed THEN "Nonce already revealed"
    ELSE IF KeccakNonce(nonce) # gm.nonceCommit THEN "Invalid nonce: commit mismatch"
    ELSE "ok"

revealNonceErr(gm, caller, nonce) ==
    IF isAuthorizedErr(gm, caller) # "ok" THEN isAuthorizedErr(gm, caller)
    ELSE IF ~gm.isActive THEN "Game finished"
    ELSE IF gm.nonceRevealed THEN "Nonce already revealed"
    ELSE IF gm.pythSeed = ZeroBytes32 THEN "Waiting for Pyth seed"
    ELSE IF KeccakNonce(nonce) # gm.nonceCommit THEN "Invalid nonce: commit mismatch"
    ELSE "ok"

\* revealNonce that stores the nonce and the flag but not the seed
revealNonceGameNoSeed(gm, nonce) ==
    [gm EXCEPT !.playerNonce = nonce, !.nonceRevealed = TRUE]

\* the stores of revealNonce
revealNonceGame(gm, nonce) ==
    [gm EXCEPT !.playerNonce = nonce,
               !.nonceRevealed = TRUE,
               !.seed = KeccakSeed(gm.pythSeed, nonce, gm.player)]

revealNonce(caller, gameId, nonce) ==
    /\ revealNonceErr(games[gameId], caller, nonce) = "ok"
    /\ games' = [games EXCEPT ![gameId] = revealNonceGame(games[gameId], nonce)]
    /\ UNCHANGED <<auxVars, sessionDelegates, govVars, now, balance, pendingRequests, payouts>>

\* ------------------------------------------------ 5. deterministic maths
\* _isMine that compares with the threshold the contract was deployed with
_isMineInitialThreshold(seed, x, y) ==
    (KeccakCell(seed, x, y) % ResidueBase) < InitialMineProbability

_isMine(seed, x, y) == (KeccakCell(seed, x, y) % ResidueBase) < MINE_PROBABILITY

\* --------------------------------------------------- 3. click and check
\* revealCell whose first branch does not compare the commit
revealCellErrNoCommitCheck(gm, caller, x, y, nonce) ==
    IF isAuthorizedErr(gm, caller) # "ok" THEN isAuthorizedErr(gm, caller)
    ELSE IF ~gm.isActive THEN "Game finished"
    ELSE IF gm.pythSeed = ZeroBytes32 THEN "Waiting for Pyth seed"
    ELSE IF gm.isLost THEN "You already lost"
    ELSE IF ~(x < GridSize /\ y < GridSize) THEN "Invalid coordinates"
    ELSE IF ~gm.nonceRevealed /\ nonce = ZeroBytes32 THEN "Nonce required for first reveal"
    ELSE IF gm.nonceRevealed /\ gm.seed = ZeroBytes32 THEN "Seed not ready"
    ELSE IF BitSet(gm.revealedCells, cellIndex(x, y)) THEN "Cell already revealed"
    ELSE "ok"

\* revealCell without require((game.revealedCells & mask) == 0)
revealCellErrNoCellCheck(gm, caller, x, y, nonce) ==
    IF isAuthorizedErr(gm, caller) # "ok" THEN isAuthorizedErr(gm, caller)
    ELSE IF ~gm.isActive THEN "Game finished"
    ELSE IF gm.pythSeed = ZeroBytes32 THEN "Waiting for Pyth seed"
    ELSE IF gm.isLost THEN "You already lost"
    ELSE IF ~(x < GridSize /\ y < GridSize) THEN "Invalid coordinates"
    ELSE IF ~gm.nonceRevealed /\ nonce = ZeroBytes32 THEN "Nonce required for first reveal"
    ELSE IF ~gm.nonceRevealed /\ KeccakNonce(nonce) # gm.nonceCommit
         THEN "Invalid nonce: commit mismatch"
    ELSE IF gm.nonceRevealed /\ gm.seed = ZeroBytes32 THEN "Seed not ready"
    ELSE "ok"

\* revealCell whose coordinate check is require(y < 10) only
revealCellErrChecksOnlyY(gm, caller, x, y, nonce) ==
    IF isAuthorizedErr(gm, caller) # "ok" THEN isAuthorizedErr(gm, caller)
    ELSE IF ~gm.isActive THEN "Game finished"
    ELSE IF gm.pythSeed = ZeroBytes32 THEN "Waiting for Pyth seed"
    ELSE IF gm.isLost THEN "You already lost"
    ELSE IF ~(y < GridSize) THEN "Invalid coordinates"
    ELSE IF ~gm.nonceRevealed /\ nonce = ZeroBytes32 THEN "Nonce required for first reveal"
    ELSE IF ~gm.nonceRevealed /\ KeccakNonce(nonce) # gm.nonceCommit
         THEN "Invalid nonce: commit mismatch"
    ELSE IF gm.nonceRevealed /\ gm.seed = ZeroBytes32 THEN "Seed not ready"
    ELSE IF BitSet(gm.revealedCells, cellIndex(x, y)) THEN "Cell already revealed"
    ELSE "ok"

\* revealCell without require(game.isActive)
revealCellErrNoActiveCheck(gm, caller, x, y, nonce) ==
    IF isAuthorizedErr(gm, caller) # "ok" THEN isAuthorizedErr(gm, caller)
    ELSE IF gm.pythSeed = ZeroBytes32 THEN "Waiting for Pyth seed"
    ELSE IF gm.isLost THEN "You already lost"
    ELSE IF ~(x < GridSize /\ y < GridSize) THEN "Invalid coordinates"
    ELSE IF ~gm.nonceRevealed /\ nonce = ZeroBytes32 THEN "Nonce required for first reveal"
    ELSE IF ~gm.nonceRevealed /\ KeccakNonce(nonce) # gm.nonceCommit
         THEN "Invalid nonce: commit mismatch"
    ELSE IF gm.nonceRevealed /\ gm.seed = ZeroBytes32 THEN "Seed not ready"
    ELSE IF BitSet(gm.revealedCells, cellIndex(x, y)) THEN "Cell already revealed"
    ELSE "ok"

\* revealCell that, once the nonce is revealed, requires the zero nonce
revealCellErrNonceMustBeZero(gm, caller, x, y, nonce) ==
    IF isAuthorizedErr(gm, caller) # "ok" THEN isAuthorizedErr(gm, caller)
    ELSE IF ~gm.isActive THEN "Game finished"
    ELSE IF gm.pythSeed = ZeroBytes32 THEN "Waiting for Pyth seed"
    ELSE IF gm.isLost THEN "You already lost"
    ELSE IF ~(x < GridSize /\ y < GridSize) THEN "Invalid coordinates"
    ELSE IF ~gm.nonceRevealed /\ nonce = ZeroBytes32 THEN "Nonce required for first reveal"
    ELSE IF ~gm.nonceRevealed /\ KeccakNonce(nonce) # gm.nonceCommit
         THEN "Invalid nonce: commit mismatch"
    ELSE IF gm.nonceRevealed /\ nonce # ZeroBytes32 THEN "Nonce must be zero"
    ELSE IF gm.nonceRevealed /\ gm.seed = ZeroBytes32 THEN "Seed not ready"
    ELSE IF BitSet(gm.revealedCells, cellIndex(x, y)) THEN "Cell already revealed"
    ELSE "ok"

revealCellErr(gm, caller, x, y, nonce) ==
    IF isAuthorizedErr(gm, caller) # "ok" THEN isAuthorizedErr(gm, caller)
    ELSE IF ~gm.isActive THEN "Game finished"
    ELSE IF gm.pythSeed = ZeroBytes32 THEN "Waiting for Pyth seed"
    ELSE IF gm.isLost THEN "You already lost"
    ELSE IF ~(x < GridSize /\ y < GridSize) THEN "Invalid coordinates"
    ELSE IF ~gm.nonceRevealed /\ nonce = ZeroBytes32 THEN "Nonce required for first reveal"
    ELSE IF ~gm.nonceRevealed /\ gm.pythSeed = ZeroBytes32 THEN "Waiting for Pyth seed"
    ELSE IF ~gm.nonceRevealed /\ KeccakNonce(nonce) # gm.nonceCommit
         THEN "Invalid nonce: commit mismatch"
    ELSE IF gm.nonceRevealed /\ gm.seed = ZeroBytes32 THEN "Seed not ready"
    ELSE IF BitSet(gm.revealedCells, cellIndex(x, y)) THEN "Cell already revealed"
    ELSE "ok"

\* revealCell that derives the seed on every call, not only on the first
inlineRevealAlways(gm, nonce) ==
    [gm EXCEPT !.playerNonce = nonce,
               !.nonceRevealed = TRUE,
               !.seed = KeccakSeed(gm.pythSeed, nonce, gm.player)]

\* an inline reveal whose seed does not bind the player's address
inlineRevealSeedWithoutPlayer(gm, nonce) ==
    IF ~gm.nonceRevealed
    THEN [gm EXCEPT !.playerNonce = nonce,
                    !.nonceRevealed = TRUE,
                    !.seed = KeccakSeed(gm.pythSeed, nonce, ZeroAddress)]
    ELSE gm

\* the first branch of revealCell: the nonce is revealed with the first cell
inlineReveal(gm, nonce) ==
    IF ~gm.nonceRevealed
    THEN [gm EXCEPT !.playerNonce = nonce,
                    !.nonceRevealed = TRUE,
                    !.seed = KeccakSeed(gm.pythSeed, nonce, gm.player)]
    ELSE gm

\* revealCell that ends the game on a mine but leaves the pot
revealCellGameKeepsPot(gm, x, y, nonce) ==
    LET g1 == inlineReveal(gm, nonce)
        g2 == [g1 EXCEPT !.revealedCells = BitOr(@, cellIndex(x, y))]
    IN  IF _isMine(g2.seed, x, y)
        THEN [g2 EXCEPT !.isActive = FALSE, !.isLost = TRUE]
        ELSE [g2 EXCEPT !.currentPot = (@ * REWARD_MULTIPLIER) \div BASE_DIVISOR]

\* revealCell whose reward is rounded up instead of truncated
revealCellGameRoundsUp(gm, x, y, nonce) ==
    LET g1 == inlineReveal(gm, nonce)
        g2 == [g1 EXCEPT !.revealedCells = BitOr(@, cellIndex(x, y))]
    IN  IF _isMine(g2.seed, x, y)
        THEN [g2 EXCEPT !.isActive = FALSE, !.isLost = TRUE, !.currentPot = 0]
        ELSE [g2 EXCEPT !.currentPot =
                 (@ * REWARD_MULTIPLIER + BASE_DIVISOR - 1) \div BASE_DIVISOR]

\* the stores of revealCell after its validations
revealCellGame(gm, x, y, nonce) ==
    LET g1 == inlineReveal(gm, nonce)
        g2 == [g1 EXCEPT !.revealedCells = BitOr(@, cellIndex(x, y))]
    IN  IF _isMine(g2.seed, x, y)
        THEN [g2 EXCEPT !.isActive = FALSE, !.isLost = TRUE, !.currentPot = 0]
        ELSE [g2 EXCEPT !.currentPot = (@ * REWARD_MULTIPLIER) \div BASE_DIVISOR]

revealCell(caller, gameId, x, y, nonce) ==
    /\ revealCellErr(games[gameId], caller, x, y, nonce) = "ok"
    /\ games' = [games EXCEPT ![gameId] = revealCellGame(games[gameId], x, y, nonce)]
    /\ UNCHANGED <<auxVars, sessionDelegates, govVars, now, balance, pendingRequests, payouts>>

\* cashOut without require(game.isActive)
cashOutErrNoActiveCheck(gm, caller) ==
    IF isAuthorizedErr(gm, caller) # "ok" THEN isAuthorizedErr(gm, caller)
    ELSE IF ~gm.nonceRevealed THEN "Nonce must be revealed first"
    ELSE IF gm.isLost THEN "You lost, cannot withdraw"
    ELSE "ok"

\* cashOut without require(game.nonceRevealed)
cashOutErrNoRevealCheck(gm, caller) ==
    IF isAuthorizedErr(gm, caller) # "ok" THEN isAuthorizedErr(gm, caller)
    ELSE IF ~gm.isActive THEN "Game inactive"
    ELSE IF gm.isLost THEN "You lost, cannot withdraw"
    ELSE "ok"

\* cashOut without the nonReentrant modifier
cashOutErrNoReentrancyGuard(gm, caller) ==
    IF isAuthorizedErr(gm, caller) # "ok" THEN isAuthorizedErr(gm, caller)
    ELSE IF ~gm.isActive THEN "Game inactive"
    ELSE IF ~gm.nonceRevealed THEN "Nonce must be revealed first"
    ELSE IF gm.isLost THEN "You lost, cannot withdraw"
    ELSE "ok"

\* the modifiers isAuthorized and nonReentrant and the requires of cashOut
\* that precede the transfer
cashOutErr(gm, caller) ==
    IF isAuthorizedErr(gm, caller) # "ok" THEN isAuthorizedErr(gm, caller)
    ELSE IF frame # NoFrame THEN "ReentrancyGuardReentrantCall"
    ELSE IF ~gm.isActive THEN "Game inactive"
    ELSE IF ~gm.nonceRevealed THEN "Nonce must be revealed first"
    ELSE IF gm.isLost THEN "You lost, cannot withdraw"
    ELSE "ok"

\* a payout sent to msg.sender
payoutRecipientCaller(gm, caller) == caller

\* game.player.call{value: payout}(""): the recipient of the payout
payoutRecipient(gm, caller) == gm.player

\* cashOut that ignores the result of the call: the game is ended although
\* nothing was sent
cashOutResultNoRevert(caller, gameId, accepts) ==
    LET gm == games[gameId]
        payout == gm.currentPot
        ended == [gm EXCEPT !.isActive = FALSE]
        sent == accepts /\ balance >= payout
    IN  IF sent
        THEN [games |-> [games EXCEPT ![gameId] = ended],
              balance |-> balance - payout,
              transfers |-> <<[to |-> gm.player, amount |-> payout, sender |-> caller]>>,
              err |-> "ok"]
        ELSE [games |-> [games EXCEPT ![gameId] = ended], balance |-> balance,
              transfers |-> <<>>, err |-> "Failed to send funds"]

\* cashOut that deletes the game record after paying
cashOutResultDeletesGame(caller, gameId, accepts) ==
    LET gm == games[gameId]
        payout == gm.currentPot
        sent == accepts /\ balance >= payout
    IN  IF sent
        THEN [games |-> [games EXCEPT ![gameId] = EmptyGame],
              balance |-> balance - payout,
              transfers |-> <<[to |-> gm.player, amount |-> payout, sender |-> caller]>>,
              err |-> "ok"]
        ELSE [games |-> games, balance |-> balance, transfers |-> <<>>,
              err |-> "Failed to send funds"]

\* The body of cashOut from the first store on.  accepts: whether the
\* recipient's code accepts the value; the call also fails when the contract
\* holds less than the payout.  require(sent) reverts the whole transaction,
\* the store to isActive included.  The result carries the storage, the
\* balance and the value transfer made (none when reverted).
cashOutResult(caller, gameId, accepts) ==
    LET gm == games[gameId]
        payout == gm.currentPot
        ended == [gm EXCEPT !.isActive = FALSE]
        to == payoutRecipient(gm, caller)
        sent == accepts /\ balance >= payout
    IN  IF sent
        THEN [games |-> [games EXCEPT ![gameId] = ended],
              balance |-> balance - payout,
              transfers |-> <<[to |-> to, amount |-> payout, sender |-> caller]>>,
              err |-> "ok"]
        ELSE [games |-> games, balance |-> balance, transfers |-> <<>>,
              err |-> "Failed to send funds"]

\* payouts logs, for each game, the value transfers cashOut made
cashOut(caller, gameId, accepts) ==
    /\ cashOutErr(games[gameId], caller) = "ok"
    /\ LET r == cashOutResult(caller, gameId, accepts)
       IN  /\ games' = r.games
           /\ balance' = r.balance
           /\ payouts' = [payouts EXCEPT ![gameId] = @ \o r.transfers]
    /\ UNCHANGED <<auxVars, sessionDelegates, govVars, now, pendingRequests>>

\* ------------------------------------------------------ 4. view functions
\* the getter of the public mapping games
gamesGetter(gameId) == games[gameId]

\* getGameState that returns the stored seed at any time
getGameStateLeaky(gameId) ==
    LET gm == games[gameId]
    IN  [player |-> gm.player, currentPot |-> gm.currentPot, seed |-> gm.seed,
         isActive |-> gm.isActive, isLost |-> gm.isLost,
         revealedCells |-> gm.revealedCells, nonceRevealed |-> gm.nonceRevealed]

getGameState(gameId) ==
    LET gm == games[gameId]
        safeSeed == IF (~gm.isActive \/ gm.isLost) /\ gm.nonceRevealed
                    THEN gm.seed ELSE ZeroBytes32
    IN  [player |-> gm.player, currentPot |-> gm.currentPot, seed |-> safeSeed,
         isActive |-> gm.isActive, isLost |-> gm.isLost,
         revealedCells |-> gm.revealedCells, nonceRevealed |-> gm.nonceRevealed]

\* getRevealedSafeCells: the [x, y] pairs of the revealed cells that _isMine,
\* evaluated now, does not call a mine; empty for a game that does not exist,
\* is lost or has no seed.  The loops run over the cells the model can reveal
\* (every other bit of revealedCells is 0) and the array is given as a set.
getRevealedSafeCells(gameId) ==
    LET gm == games[gameId]
    IN  IF gm.player = ZeroAddress \/ gm.isLost \/ ~gm.nonceRevealed
              \/ gm.seed = ZeroBytes32
        THEN {}
        ELSE {xy \in ValidCells :
                 /\ BitSet(gm.revealedCells, cellIndex(xy[1], xy[2]))
                 /\ ~_isMine(gm.seed, xy[1], xy[2])}

getCellStatus(gameId, x, y) ==
    LET gm == games[gameId]
        isRevealed == BitSet(gm.revealedCells, cellIndex(x, y))
    IN  IF gm.player = ZeroAddress \/ ~gm.nonceRevealed \/ gm.seed = ZeroBytes32
        THEN [isRevealed |-> FALSE, isSafe |-> FALSE]
        ELSE [isRevealed |-> isRevealed,
              isSafe |-> IF isRevealed THEN ~_isMine(gm.seed, x, y) ELSE FALSE]

\* ----------------------------------------------------------- house funds
\* onlyOwner that lets every caller through
onlyOwnerErrAnyCaller(caller) == "ok"

onlyOwnerErr(caller) == IF caller # Owner THEN "OwnableUnauthorizedAccount" ELSE "ok"

withdrawHouseFunds(caller, accepts) ==
    /\ onlyOwnerErr(caller) = "ok"
    /\ balance' = IF accepts THEN 0 ELSE balance
    /\ UNCHANGED <<auxVars, games, pendingRequests, payouts, sessionDelegates, govVars, now>>

\* ------------------------------------------------------------ governance
\* proposeMineProbabilityChange without the range check
proposeMineProbabilityChangeErrNoRange(caller, newProbability) ==
    onlyOwnerErr(caller)

proposeMineProbabilityChangeErr(caller, newProbability) ==
    IF onlyOwnerErr(caller) # "ok" THEN onlyOwnerErr(caller)
    ELSE IF ~(newProbability >= MIN_MINE_PROBABILITY /\ newProbability <= MAX_MINE_PROBABILITY)
         THEN "Probability out of allowed range"
    ELSE "ok"

\* a propose that replaces the value of a pending change but keeps its deadline
proposeMineProbabilityChangeKeepsDeadline(caller, newProbability) ==
    /\ proposeMineProbabilityChangeErr(caller, newProbability) = "ok"
    /\ pendingMineProbability' =
          [newValue |-> newProbability,
           changeTime |-> IF pendingMineProbability.changeTime > 0
                          THEN pendingMineProbability.changeTime
                          ELSE now + PARAM_CHANGE_DELAY]
    /\ UNCHANGED <<auxVars, gameVars, sessionDelegates, now, MINE_PROBABILITY,
                   REWARD_MULTIPLIER, pendingRewardMultiplier>>

proposeMineProbabilityChange(caller, newProbability) ==
    /\ proposeMineProbabilityChangeErr(caller, newProbability) = "ok"
    /\ pendingMineProbability' =
          [newValue |-> newProbability, changeTime |-> now + PARAM_CHANGE_DELAY]
    /\ UNCHANGED <<auxVars, gameVars, sessionDelegates, now, MINE_PROBABILITY,
                   REWARD_MULTIPLIER, pendingRewardMultiplier>>

\* executeMineProbabilityChange without the timelock check
executeMineProbabilityChangeErrNoTimelock(caller) ==
    IF onlyOwnerErr(caller) # "ok" THEN onlyOwnerErr(caller)
    ELSE IF ~(pendingMineProbability.changeTime > 0) THEN "No pending change"
    ELSE "ok"

executeMineProbabilityChangeErr(caller) ==
    IF onlyOwnerErr(caller) # "ok" THEN onlyOwnerErr(caller)
    ELSE IF ~(pendingMineProbability.changeTime > 0) THEN "No pending change"
    ELSE IF ~(now >= pendingMineProbability.changeTime) THEN "Timelock not expired"
    ELSE "ok"

executeMineProbabilityChange(caller) ==
    /\ executeMineProbabilityChangeErr(caller) = "ok"
    /\ MINE_PROBABILITY' = pendingMineProbability.newValue
    /\ pendingMineProbability' = NoPendingChange
    /\ UNCHANGED <<auxVars, gameVars, sessionDelegates, now, REWARD_MULTIPLIER,
                   pendingRewardMultiplier>>

\* a propose that accepts a multiplier outside the allowed range
proposeRewardMultiplierChangeErrNoRange(caller, newMultiplier) ==
    onlyOwnerErr(caller)

proposeRewardMultiplierChangeErr(caller, newMultiplier) ==
    IF onlyOwnerErr(caller) # "ok" THEN onlyOwnerErr(caller)
    ELSE IF ~(newMultiplier >= MIN_REWARD_MULTIPLIER /\ newMultiplier <= MAX_REWARD_MULTIPLIER)
         THEN "Multiplier out of allowed range"
    ELSE "ok"

proposeRewardMultiplierChange(caller, newMultiplier) ==
    /\ proposeRewardMultiplierChangeErr(caller, newMultiplier) = "ok"
    /\ pendingRewardMultiplier' =
          [newValue |-> newMultiplier, changeTime |-> now + PARAM_CHANGE_DELAY]
    /\ UNCHANGED <<auxVars, gameVars, sessionDelegates, now, MINE_PROBABILITY,
                   REWARD_MULTIPLIER, pendingMineProbability>>

executeRewardMultiplierChangeErr(caller) ==
    IF onlyOwnerErr(caller) # "ok" THEN onlyOwnerErr(caller)
    ELSE IF ~(pendingRewardMultiplier.changeTime > 0) THEN "No pending change"
    ELSE IF ~(now >= pendingRewardMultiplier.changeTime) THEN "Timelock not expired"
    ELSE "ok"

executeRewardMultiplierChange(caller) ==
    /\ executeRewardMultiplierChangeErr(caller) = "ok"
    /\ REWARD_MULTIPLIER' = pendingRewardMultiplier.newValue
    /\ pendingRewardMultiplier' = NoPendingChange
    /\ UNCHANGED <<auxVars, gameVars, sessionDelegates, now, MINE_PROBABILITY,
                   pendingMineProbability>>

\* cancelPendingChange that requires a change to be pending
cancelPendingChangeOnlyPending(caller, isProbabilityChange) ==
    /\ onlyOwnerErr(caller) = "ok"
    /\ IF isProbabilityChange
       THEN /\ pendingMineProbability.changeTime > 0
            /\ pendingMineProbability' = NoPendingChange
            /\ UNCHANGED pendingRewardMultiplier
       ELSE /\ pendingRewardMultiplier.changeTime > 0
            /\ pendingRewardMultiplier' = NoPendingChange
            /\ UNCHANGED pendingMineProbability
    /\ UNCHANGED <<auxVars, gameVars, sessionDelegates, now, MINE_PROBABILITY, REWARD_MULTIPLIER>>

cancelPendingChange(caller, isProbabilityChange) ==
    /\ onlyOwnerErr(caller) = "ok"
    /\ IF isProbabilityChange
       THEN /\ pendingMineProbability' = NoPendingChange
            /\ UNCHANGED pendingRewardMultiplier
       ELSE /\ pendingRewardMultiplier' = NoPendingChange
            /\ UNCHANGED pendingMineProbability
    /\ UNCHANGED <<auxVars, gameVars, sessionDelegates, now, MINE_PROBABILITY, REWARD_MULTIPLIER>>

\* block.timestamp advances between transactions
Tick ==
    /\ now + PARAM_CHANGE_DELAY <= 1 + MaxTicks * PARAM_CHANGE_DELAY
    /\ now' = now + PARAM_CHANGE_DELAY
    /\ UNCHANGED <<auxVars, gameVars, sessionDelegates, govVars>>

Next ==
    \/ \E c \in Addresses : \E k \in {ZeroAddress, c} \cup SessionKeys : registerSessionKey(c, k)
    \/ \E c \in Addresses, k \in {ZeroAddress} \cup SessionKeys : revokeSessionKey(c, k)
    \/ \E c \in Players, w \in Wagers, nc \in Commitments, s \in GameIds :
          startGame(c, PythFee + w, nc, s)
    \/ \E s \in GameIds, r \in RandomNumbers : entropyCallback(s, r)
    \/ \E c \in Addresses, g \in GameIds, n \in Nonces : revealNonce(c, g, n)
    \/ \E c \in Addresses, g \in GameIds, xy \in CellInputs, n \in Nonces :
          revealCell(c, g, xy[1], xy[2], n)
    \/ \E c \in Addresses, g \in GameIds, accepts \in BOOLEAN : cashOut(c, g, accepts)
    \/ \E c \in Addresses, accepts \in BOOLEAN : withdrawHouseFunds(c, accepts)
    \/ \E c \in Addresses, v \in MineProposals : proposeMineProbabilityChange(c, v)
    \/ \E c \in Addresses : executeMineProbabilityChange(c)
    \/ \E c \in Addresses, v \in MultiplierProposals : proposeRewardMultiplierChange(c, v)
    \/ \E c \in Addresses : executeRewardMultiplierChange(c)
    \/ \E c \in Addresses, b \in BOOLEAN : cancelPendingChange(c, b)
    \/ Tick

Spec == Init /\ [][Next]_vars

\* --------------------------------------------- governance on its own
\* The timelocked governance with two admissible values for each parameter
\* and block timestamps half a delay apart, so that a pending change can be
\* replaced by another value and at a time strictly inside its timelock.
MaxHalfDelays == 5
HalfDelay == PARAM_CHANGE_DELAY \div 2
GovMineProposals == {3000, 4000}
GovMultiplierProposals == {10000, 15000}

\* block.timestamp advances by half of PARAM_CHANGE_DELAY
ElapseHalfDelay ==
    /\ now + HalfDelay <= 1 + MaxHalfDelays * HalfDelay
    /\ now' = now + HalfDelay
    /\ UNCHANGED <<auxVars, gameVars, sessionDelegates, govVars>>

NextGovernance ==
    \/ \E v \in GovMineProposals : proposeMineProbabilityChange(Owner, v)
    \/ executeMineProbabilityChange(Owner)
    \/ \E v \in GovMultiplierProposals : proposeRewardMultiplierChange(Owner, v)
    \/ executeRewardMultiplierChange(Owner)
    \/ \E b \in BOOLEAN : cancelPendingChange(Owner, b)
    \/ ElapseHalfDelay

SpecGovernance == Init /\ [][NextGovernance]_vars

\* --------------------------------- cashOut with its transfer in progress
\* cashOut split at game.player.call{value: payout}(""): the recipient's code
\* runs after isActive was cleared and the value left the contract, and may
\* call the contract again before it returns.  A transfer of more than the
\* balance fails without running the recipient.
cashOutBegin(caller, gameId) ==
    /\ cashOutErr(games[gameId], caller) = "ok"
    /\ balance >= games[gameId].currentPot
    /\ frame' = [gameId |-> gameId, caller |-> caller,
                 payout |-> games[gameId].currentPot,
                 savedGames |-> games, savedBalance |-> balance]
    /\ games' = [games EXCEPT ![gameId].isActive = FALSE]
    /\ balance' = balance - games[gameId].currentPot
    /\ UNCHANGED <<sessionDelegates, govVars, now, pendingRequests, payouts, client>>

\* the recipient of the transfer in progress
Recipient == payoutRecipient(games[frame.gameId], frame.caller)

\* the recipient's code returns: on success cashOut ends; on failure
\* require(sent) reverts the transaction, nested calls included
cashOutReturn(sent) ==
    /\ frame # NoFrame
    /\ IF sent
       THEN /\ payouts' = [payouts EXCEPT ![frame.gameId] =
                              Append(@, [to |-> Recipient, amount |-> frame.payout,
                                         sender |-> frame.caller])]
            /\ UNCHANGED <<games, balance>>
       ELSE /\ games' = frame.savedGames
            /\ balance' = frame.savedBalance
            /\ UNCHANGED payouts
    /\ frame' = NoFrame
    /\ UNCHANGED <<sessionDelegates, govVars, now, pendingRequests, client>>

\* transactions of one player, and the calls the recipient makes from inside
\* the transfer; a nested call that reverts is no step
NextReentrancy ==
    \/ /\ frame = NoFrame
       /\ \E c \in Players, w \in Wagers, nc \in Commitments, s \in GameIds :
             startGame(c, PythFee + w, nc, s)
    \/ /\ frame = NoFrame
       /\ \E s \in GameIds, r \in RandomNumbers : entropyCallback(s, r)
    \/ /\ frame = NoFrame
       /\ \E c \in Players, g \in GameIds, n \in Nonces : revealNonce(c, g, n)
    \/ /\ frame = NoFrame
       /\ \E c \in Players, g \in GameIds, xy \in CellInputs, n \in Nonces :
             revealCell(c, g, xy[1], xy[2], n)
    \/ \E c \in Players, g \in GameIds : cashOutBegin(c, g)
    \/ /\ frame # NoFrame
       /\ \E g \in GameIds, n \in Nonces : revealNonce(Recipient, g, n)
    \/ /\ frame # NoFrame
       /\ \E g \in GameIds, xy \in CellInputs, n \in Nonces :
             revealCell(Recipient, g, xy[1], xy[2], n)
    \/ \E sent \in BOOLEAN : cashOutReturn(sent)

SpecReentrancy == Init /\ [][NextReentrancy]_vars

\* ------------------------------------- a gateway that delivers again
\* entropyCallback has no guard: it stores whatever the entropy contract
\* delivers for a sequence number, also when that number was fulfilled before.
\* Here the gateway may deliver again for a game it has already fulfilled,
\* with the same value or another one.
RedeliveredNumbers == {1, 2}

entropyCallbackRedelivered(sequenceNumber, randomNumber) ==
    /\ games[sequenceNumber].player # ZeroAddress
    /\ sequenceNumber \notin pendingRequests
    /\ games' = [games EXCEPT ![sequenceNumber].pythSeed = randomNumber]
    /\ UNCHANGED <<auxVars, sessionDelegates, govVars, now, balance, payouts, pendingRequests>>

NextRedelivery ==
    \/ \E c \in Players, w \in Wagers, nc \in Commitments, s \in GameIds :
          startGame(c, PythFee + w, nc, s)
    \/ \E s \in GameIds, r \in RandomNumbers : entropyCallback(s, r)
    \/ \E s \in GameIds, r \in RedeliveredNumbers : entropyCallbackRedelivered(s, r)
    \/ \E c \in Players, g \in GameIds, n \in Nonces : revealNonce(c, g, n)
    \/ \E c \in Players, g \in GameIds, xy \in CellInputs, n \in Nonces :
          revealCell(c, g, xy[1], xy[2], n)
    \/ \E c \in Players, g \in GameIds, accepts \in BOOLEAN : cashOut(c, g, accepts)

SpecRedelivery == Init /\ [][NextRedelivery]_vars

\* ------------------------------------------ the web client's start flow
\* startGame of src/app/page.tsx for one player and one game: the client
\* sends the transaction, learns the game id from the receipt, then watches
\* for the GameStarted event and polls getGameInfo every second.
maxAttempts == 30
ClientNonces == {1, 2}
ClientPlayer == 2
ClientBet == 10

\* the nonce is generated and kept in memory, the transaction is sent
clientStartGame(nonce) ==
    /\ client = IdleClient
    /\ client' = [IdleClient EXCEPT !.status = "waiting_pyth", !.currentNonce = nonce]
    /\ UNCHANGED <<gameVars, sessionDelegates, govVars, now, frame>>

\* the receipt gives the game id; the watcher and the interval are set up
receiptConfirmed(gameId) ==
    /\ client.status = "waiting_pyth" /\ client.id = 0
    /\ games[gameId].player # ZeroAddress
    /\ client' = [client EXCEPT !.id = gameId, !.watching = TRUE, !.polling = TRUE]
    /\ UNCHANGED <<gameVars, sessionDelegates, govVars, now, frame>>

\* onLogs of the GameStarted watcher; an event may also never be captured
onLogs ==
    /\ client.watching /\ ~client.gameStartedReceived
    /\ games[client.id].pythSeed # ZeroBytes32
    /\ client' = [client EXCEPT !.gameStartedReceived = TRUE, !.watching = FALSE]
    /\ UNCHANGED <<gameVars, sessionDelegates, govVars, now, frame>>

\* what startGame does once the polling promise is resolved
afterPolling(c) ==
    IF ~c.gameStartedReceived
    THEN [c EXCEPT !.status = "idle", !.currentNonce = NullNonce]
    ELSE [c EXCEPT !.status = "waiting_nonce"]

\* the interval callback up to its await of getGameInfo
pollTick ==
    /\ client.polling /\ ~client.reading
    /\ client' = IF client.cancelled \/ client.gameStartedReceived
                 THEN afterPolling([client EXCEPT !.polling = FALSE])
                 ELSE [client EXCEPT !.attempts = @ + 1, !.reading = TRUE]
    /\ UNCHANGED <<gameVars, sessionDelegates, govVars, now, frame>>

\* the interval callback from the answer of getGameInfo, which reads the
\* games getter, or from its failure
pollRead(failed) ==
    /\ client.reading
    /\ LET seed == gamesGetter(client.id).seed
           stopped == [client EXCEPT !.cancelled = TRUE, !.polling = FALSE,
                                     !.watching = FALSE, !.reading = FALSE]
       IN  client' =
             IF failed
             THEN IF client.attempts >= maxAttempts
                  THEN afterPolling(stopped)
                  ELSE [client EXCEPT !.reading = FALSE]
             ELSE IF seed # ZeroBytes32
             THEN afterPolling([stopped EXCEPT !.gameStartedReceived = TRUE])
             ELSE IF client.attempts >= maxAttempts
             THEN afterPolling([stopped EXCEPT !.status = "idle",
                                               !.currentNonce = NullNonce])
             ELSE [client EXCEPT !.reading = FALSE]
    /\ UNCHANGED <<gameVars, sessionDelegates, govVars, now, frame>>

\* the client's transaction, the gateway's callback, and a reveal of the
\* nonce made outside this flow (the nonce is also in localStorage)
NextClient ==
    \/ \E n \in ClientNonces : clientStartGame(n)
    \/ /\ client.status = "waiting_pyth" /\ client.id = 0
       /\ \A g \in GameIds : games[g].player = ZeroAddress
       /\ \E s \in GameIds :
             startGame(ClientPlayer, PythFee + ClientBet, KeccakNonce(client.currentNonce), s)
    \/ \E s \in GameIds : receiptConfirmed(s)
    \/ \E s \in GameIds, r \in RandomNumbers : entropyCallback(s, r)
    \/ onLogs
    \/ pollTick
    \/ \E failed \in BOOLEAN : pollRead(failed)
    \/ \E g \in GameIds, n \in ClientNonces : revealNonce(ClientPlayer, g, n)

SpecClient == Init /\ [][NextClient]_vars

\* ====================================================================
\* Properties
\* ====================================================================
Exists(gm) == gm.player # ZeroAddress
Authorized(gm, caller) == isAuthorizedErr(gm, caller) = "ok"
AwaitingRandomness(gm) == Exists(gm) /\ gm.isActive /\ gm.pythSeed = ZeroBytes32
AwaitingFirstReveal(gm) == gm.isActive /\ gm.pythSeed # ZeroBytes32 /\ ~gm.nonceRevealed
Playing(gm) == gm.isActive /\ gm.nonceRevealed /\ ~gm.isLost
CashedOut(gm) == Exists(gm) /\ ~gm.isActive /\ ~gm.isLost

C2_SeedWithheld ==
    \A g \in GameIds :
        LET gm == games[g]
            view == getGameState(g)
        IN  /\ ((gm.isActive /\ ~gm.isLost) \/ ~gm.nonceRevealed) => view.seed = ZeroBytes32
            /\ ((~gm.isActive \/ gm.isLost) /\ gm.nonceRevealed) => view.seed = gm.seed

\* one game is being played with a non-zero seed that the view withholds, and
\* another is finished and the view shows its seed
C2_Witness ==
    \E g1, g2 \in GameIds :
        /\ Playing(games[g1]) /\ games[g1].seed # ZeroBytes32
        /\ getGameState(g1).seed = ZeroBytes32
        /\ ~games[g2].isActive /\ games[g2].nonceRevealed
        /\ getGameState(g2).seed = games[g2].seed /\ games[g2].seed # ZeroBytes32

\* C3: while a game is active no read of the contract returns its non-zero
\* seed, nor the Pyth seed together with the revealed nonce from which the seed
\* is recomputed.  (The public getter of the games mapping returns all three.)
C3_NoReadReturnsSeedWhileActive ==
    \A g \in GameIds :
        games[g].isActive =>
            /\ getGameState(g).seed = ZeroBytes32
            /\ gamesGetter(g).seed = ZeroBytes32
            /\ ~(gamesGetter(g).pythSeed # ZeroBytes32 /\ gamesGetter(g).nonceRevealed)

\* C4: when the payout transfer of cashOut does not succeed (the recipient
\* rejects it, or the contract holds less than the pot) the call fails with
\* "Failed to send funds", the storage and the balance are as before and no
\* value moved, so the same cashOut still passes its requires afterwards.
C4_TransferFailedRollsBack ==
    \A g \in GameIds, c \in Addresses, accepts \in BOOLEAN :
        (cashOutErr(games[g], c) = "ok" /\ (~accepts \/ balance < games[g].currentPot)) =>
            LET r == cashOutResult(c, g, accepts)
            IN  /\ r.err = "Failed to send funds"
                /\ r.games = games
                /\ r.balance = balance
                /\ r.transfers = <<>>
                /\ cashOutErr(r.games[g], c) = "ok"

\* a game can be cashed out but the contract holds less than its pot
C4_Witness ==
    \E g \in GameIds, c \in Addresses :
        /\ cashOutErr(games[g], c) = "ok"
        /\ balance < games[g].currentPot
        /\ cashOutResult(c, g, TRUE).err = "Failed to send funds"

\* C5: a payout is made only from a state where the game is active, its nonce
\* revealed and it is not lost, and the game is not active afterwards; every
\* game has at most one payout and a lost game has none.
C5_PayoutOnce ==
    /\ [](\A g \in GameIds :
            /\ Len(payouts[g]) <= 1
            /\ games[g].isLost => payouts[g] = <<>>
            /\ \A c \in Addresses :
                  cashOutErr(games[g], c) = "ok" =>
                      games[g].isActive /\ games[g].nonceRevealed /\ ~games[g].isLost)
    /\ [][\A g \in GameIds :
            payouts'[g] # payouts[g] =>
                /\ games[g].isActive /\ games[g].nonceRevealed /\ ~games[g].isLost
                /\ ~games'[g].isActive]_vars

\* one game was paid out and is over, another was lost and has no payout
C5_Witness ==
    \E g1, g2 \in GameIds :
        /\ Len(payouts[g1]) = 1 /\ CashedOut(games[g1])
        /\ games[g2].isLost /\ payouts[g2] = <<>>

\* C6: while an existing game's pythSeed is zero, revealNonce, revealCell and
\* cashOut fail on it for every caller and argument, and a step that changes
\* the game is the entropy callback for its id, storing the random number.
C6_NothingBeforeRandomness ==
    /\ [](\A g \in GameIds :
            (Exists(games[g]) /\ games[g].pythSeed = ZeroBytes32) =>
                /\ \A c \in Addresses, n \in Nonces : revealNonceErr(games[g], c, n) # "ok"
                /\ \A c \in Addresses, n \in Nonces, xy \in CellInputs :
                      revealCellErr(games[g], c, xy[1], xy[2], n) # "ok"
                /\ \A c \in Addresses : cashOutErr(games[g], c) # "ok")
    /\ [][\A g \in GameIds :
            (Exists(games[g]) /\ games[g].pythSeed = ZeroBytes32 /\ games'[g] # games[g]) =>
                \E r \in RandomNumbers :
                    /\ entropyCallback(g, r)
                    /\ games'[g] = [games[g] EXCEPT !.pythSeed = r]]_vars

\* a game is still waiting for its random number a day after it was started,
\* with a delegate registered for its player
C6_Witness ==
    \E g \in GameIds, d \in Addresses :
        /\ AwaitingRandomness(games[g])
        /\ sessionDelegates[d] = games[g].player
        /\ now > 1

\* C7 as stated: on a game awaiting its first reveal, for an authorized caller,
\* both revealNonce and the first revealCell succeed with a nonce whose hash is
\* the commit and fail with "Invalid nonce: commit mismatch" with any other.
C7_RevealChecksCommit ==
    \A g \in GameIds, c \in Addresses, n \in Nonces, xy \in ValidCells :
        (AwaitingFirstReveal(games[g]) /\ Authorized(games[g], c)) =>
            IF KeccakNonce(n) = games[g].nonceCommit
            THEN /\ revealNonceErr(games[g], c, n) = "ok"
                 /\ revealCellErr(games[g], c, xy[1], xy[2], n) = "ok"
            ELSE /\ revealNonceErr(games[g], c, n) = "Invalid nonce: commit mismatch"
                 /\ revealCellErr(games[g], c, xy[1], xy[2], n) = "Invalid nonce: commit mismatch"

\* C7 amended: a reveal succeeds only with a nonce whose hash is the commit.
\* On a game awaiting its first reveal, for an authorized caller, revealNonce
\* succeeds with such a nonce and fails with "Invalid nonce: commit mismatch"
\* with any other; the first revealCell does the same for a non-zero nonce, and
\* rejects the zero nonce with "Nonce required for first reveal" before it
\* compares any hash, also when zero is the committed nonce.
C7_RevealChecksCommitNonZero ==
    \A g \in GameIds, c \in Addresses, n \in Nonces, xy \in CellInputs :
        /\ revealNonceErr(games[g], c, n) = "ok" => KeccakNonce(n) = games[g].nonceCommit
        /\ (revealCellErr(games[g], c, xy[1], xy[2], n) = "ok" /\ ~games[g].nonceRevealed) =>
              KeccakNonce(n) = games[g].nonceCommit
        /\ (AwaitingFirstReveal(games[g]) /\ Authorized(games[g], c) /\ xy \in ValidCells) =>
              /\ revealNonceErr(games[g], c, n) =
                    (IF KeccakNonce(n) = games[g].nonceCommit
                     THEN "ok" ELSE "Invalid nonce: commit mismatch")
              /\ revealCellErr(games[g], c, xy[1], xy[2], n) =
                    (IF n = ZeroBytes32 THEN "Nonce required for first reveal"
                     ELSE IF KeccakNonce(n) = games[g].nonceCommit THEN "ok"
                     ELSE "Invalid nonce: commit mismatch")

\* a game committed to the zero nonce awaits its first reveal, and another
\* game's nonce has been revealed
C7_Witness ==
    \E g1, g2 \in GameIds :
        /\ AwaitingFirstReveal(games[g1])
        /\ games[g1].nonceCommit = KeccakNonce(ZeroBytes32)
        /\ games[g2].nonceRevealed
        /\ KeccakNonce(games[g2].playerNonce) = games[g2].nonceCommit

\* C8 as stated: once the nonce is revealed, every further revealNonce by an
\* authorized caller fails with "Nonce already revealed".
C8_RevealFailsAlreadyRevealed ==
    \A g \in GameIds, c \in Addresses, n \in Nonces :
        (games[g].nonceRevealed /\ Authorized(games[g], c)) =>
            revealNonceErr(games[g], c, n) = "Nonce already revealed"

\* C8 amended: once the nonce is revealed, every further revealNonce by an
\* authorized caller fails, with "Nonce already revealed" while the game is
\* active and with "Game finished" once it has ended, and the flag, the stored
\* nonce and the seed keep their values in every later state.
C8_RevealOnce ==
    /\ [](\A g \in GameIds, c \in Addresses, n \in Nonces :
            (games[g].nonceRevealed /\ Authorized(games[g], c)) =>
                revealNonceErr(games[g], c, n) =
                    (IF games[g].isActive THEN "Nonce already revealed"
                     ELSE "Game finished"))
    /\ [][\A g \in GameIds :
            games[g].nonceRevealed =>
                /\ games'[g].nonceRevealed
                /\ games'[g].playerNonce = games[g].playerNonce
                /\ games'[g].seed = games[g].seed]_vars

\* a game whose nonce was revealed was cashed out after a cell was revealed,
\* and revealNonce with its nonce now fails with "Game finished"
C8_Witness ==
    \E g \in GameIds :
        /\ games[g].nonceRevealed /\ CashedOut(games[g])
        /\ games[g].revealedCells # 0
        /\ revealNonceErr(games[g], games[g].player, games[g].playerNonce) = "Game finished"

\* C9: for every game, the seed is non-zero exactly when the nonce is revealed
\* and the Pyth seed is non-zero.
C9_SeedIffRevealed ==
    \A g \in GameIds :
        (games[g].seed # ZeroBytes32) <=>
            (games[g].nonceRevealed /\ games[g].pythSeed # ZeroBytes32)

\* one game has its seed, another has its random number but no nonce yet
C9_Witness ==
    \E g1, g2 \in GameIds :
        /\ games[g1].seed # ZeroBytes32 /\ games[g1].nonceRevealed
        /\ games[g2].pythSeed # ZeroBytes32 /\ ~games[g2].nonceRevealed
        /\ games[g2].seed = ZeroBytes32

\* C10: a step in which revealCell sets the bit of a cell that is a mine
\* leaves the game lost, not active and with pot 0; a lost game stays lost, not active and with pot 0 in every later state, and
\* every revealCell on it fails, with "Game finished" for an authorized caller.
C10_LostIsFinal ==
    /\ [](\A g \in GameIds :
            games[g].isLost =>
                /\ ~games[g].isActive /\ games[g].currentPot = 0
                /\ \A c \in Addresses, n \in Nonces, xy \in CellInputs :
                      /\ revealCellErr(games[g], c, xy[1], xy[2], n) # "ok"
                      /\ Authorized(games[g], c) =>
                            revealCellErr(games[g], c, xy[1], xy[2], n) = "Game finished")
    /\ [][\A g \in GameIds :
            /\ \A xy \in ValidCells :
                  (/\ ~BitSet(games[g].revealedCells, cellIndex(xy[1], xy[2]))
                   /\ BitSet(games'[g].revealedCells, cellIndex(xy[1], xy[2]))
                   /\ _isMine(games'[g].seed, xy[1], xy[2])) =>
                      games'[g].isLost /\ ~games'[g].isActive /\ games'[g].currentPot = 0
            /\ games[g].isLost =>
                  games'[g].isLost /\ ~games'[g].isActive /\ games'[g].currentPot = 0]_vars

\* a game was lost on its second cell; its pot is 0 and it is not active
C10_Witness ==
    \E g \in GameIds, xy1, xy2 \in ValidCells :
        /\ games[g].isLost /\ ~games[g].isActive /\ games[g].currentPot = 0
        /\ xy1 # xy2
        /\ BitSet(games[g].revealedCells, cellIndex(xy1[1], xy1[2]))
        /\ BitSet(games[g].revealedCells, cellIndex(xy2[1], xy2[2]))

\* C11 as stated: for a cell whose bit is set, revealCell on that cell by an
\* authorized caller fails with "Cell already revealed" in every state.
C11_RevealedCellAlwaysCellAlreadyRevealed ==
    \A g \in GameIds, c \in Addresses, n \in Nonces, xy \in ValidCells :
        (BitSet(games[g].revealedCells, cellIndex(xy[1], xy[2])) /\ Authorized(games[g], c)) =>
            revealCellErr(games[g], c, xy[1], xy[2], n) = "Cell already revealed"

\* C11 amended: the bit of a revealed cell stays set, and revealCell on that
\* cell by an authorized caller fails with any nonce in every later state: with
\* "Cell already revealed" while the game is active and with "Game finished"
\* once it has ended.
C11_RevealedCellNeverAgain ==
    /\ [](\A g \in GameIds, c \in Addresses, n \in Nonces, xy \in ValidCells :
            BitSet(games[g].revealedCells, cellIndex(xy[1], xy[2])) =>
                /\ revealCellErr(games[g], c, xy[1], xy[2], n) # "ok"
                /\ Authorized(games[g], c) =>
                      revealCellErr(games[g], c, xy[1], xy[2], n) =
                          (IF games[g].isActive THEN "Cell already revealed"
                           ELSE "Game finished"))
    /\ [][\A g \in GameIds, xy \in ValidCells :
            BitSet(games[g].revealedCells, cellIndex(xy[1], xy[2])) =>
                BitSet(games'[g].revealedCells, cellIndex(xy[1], xy[2]))]_vars

\* one game is being played with a cell revealed, which a registered delegate
\* may not reveal again; another game has ended with a cell revealed
C11_Witness ==
    \E g1, g2 \in GameIds, d \in Addresses, xy1, xy2 \in ValidCells :
        /\ Playing(games[g1])
        /\ BitSet(games[g1].revealedCells, cellIndex(xy1[1], xy1[2]))
        /\ d # games[g1].player /\ Authorized(games[g1], d)
        /\ revealCellErr(games[g1], d, xy1[1], xy1[2], 1) = "Cell already revealed"
        /\ ~games[g2].isActive
        /\ BitSet(games[g2].revealedCells, cellIndex(xy2[1], xy2[2]))
        /\ revealCellErr(games[g2], games[g2].player, xy2[1], xy2[2], 1) = "Game finished"

\* the revealedCells value in which exactly the cells of S are revealed
RECURSIVE MaskOf(_)
MaskOf(S) ==
    IF S = {} THEN 0
    ELSE LET xy == CHOOSE c \in S : TRUE
         IN  2 ^ cellIndex(xy[1], xy[2]) + MaskOf(S \ {xy})

\* C12: revealedCells only grows.  A step that changes it sets exactly one
\* bit, y*10+x of a cell with x, y < 10, that was clear before, and keeps all
\* others; revealCell with x >= 10 or y >= 10 never succeeds, and fails with
\* "Invalid coordinates" for an authorized caller on a game being played, so
\* the bits set are those of cells of the grid only.
C12_MaskOnlyGrows ==
    /\ [](\A g \in GameIds :
            /\ \E S \in SUBSET ValidCells : games[g].revealedCells = MaskOf(S)
            /\ \A c \in Addresses, n \in Nonces, xy \in CellInputs \ ValidCells :
                  /\ revealCellErr(games[g], c, xy[1], xy[2], n) # "ok"
                  /\ (Authorized(games[g], c) /\ games[g].isActive
                         /\ games[g].pythSeed # ZeroBytes32) =>
                        revealCellErr(games[g], c, xy[1], xy[2], n) = "Invalid coordinates")
    /\ [][\A g \in GameIds :
            games'[g].revealedCells # games[g].revealedCells =>
                \E xy \in ValidCells :
                    /\ ~BitSet(games[g].revealedCells, cellIndex(xy[1], xy[2]))
                    /\ games'[g].revealedCells =
                          games[g].revealedCells + 2 ^ cellIndex(xy[1], xy[2])]_vars

\* a game being played has both cells of the model revealed, one bit each, and
\* revealCell with an x or a y of 10 fails on it with "Invalid coordinates"
C12_Witness ==
    \E g \in GameIds :
        /\ Playing(games[g])
        /\ games[g].revealedCells = MaskOf(ValidCells)
        /\ Cardinality(ValidCells) = 2
        /\ \A xy \in CellInputs \ ValidCells :
              revealCellErr(games[g], games[g].player, xy[1], xy[2], 1) = "Invalid coordinates"

\* the pot after k safe reveals of a game with net wager w under multiplier m
RECURSIVE NestedPot(_, _, _)
NestedPot(w, m, k) ==
    IF k = 0 THEN w ELSE (NestedPot(w, m, k - 1) * m) \div BASE_DIVISOR

\* the number of cells revealed in a game
RevealedCount(gm) ==
    Cardinality({xy \in ValidCells : BitSet(gm.revealedCells, cellIndex(xy[1], xy[2]))})

C14_OnlyAuthorized ==
    /\ [](\A g \in GameIds, c \in Addresses, n \in Nonces, xy \in CellInputs :
            LET gm == games[g]
                allowed == c = gm.player \/ sessionDelegates[c] = gm.player
                errs == {revealNonceErr(gm, c, n),
                         revealCellErr(gm, c, xy[1], xy[2], n),
                         cashOutErr(gm, c)}
            IN  /\ gm.player = ZeroAddress => errs = {"Game does not exist"}
                /\ (gm.player # ZeroAddress /\ ~allowed) =>
                      errs = {"Not authorized: Only Player or SessionKey"}
                /\ "ok" \in errs => (gm.player # ZeroAddress /\ allowed))
    /\ [][\A g \in GameIds :
            payouts'[g] # payouts[g] =>
                LET s == payouts'[g][Len(payouts'[g])].sender
                IN  s = games[g].player \/ sessionDelegates[s] = games[g].player]_vars

\* a delegate cashed a game out and was revoked afterwards, so that its calls
\* on that game now fail as unauthorized; the other game id was never used
C14_Witness ==
    \E g1, g2 \in GameIds, d \in Addresses :
        /\ Len(payouts[g1]) = 1 /\ payouts[g1][1].sender = d
        /\ d # games[g1].player /\ sessionDelegates[d] = ZeroAddress
        /\ cashOutErr(games[g1], d) = "Not authorized: Only Player or SessionKey"
        /\ revealNonceErr(games[g1], Owner, 1) = "Not authorized: Only Player or SessionKey"
        /\ ~Exists(games[g2])
        /\ revealCellErr(games[g2], d, 0, 1, 1) = "Game does not exist"

\* C15: an entry sessionDelegates[d] = p stops holding only in a step by p
\* itself, which is revokeSessionKey(d) called by p.  (registerSessionKey(d)
\* called by another address replaces the entry.)
C15_DelegationRemovedOnlyByPrincipal ==
    [][\A d \in AllAddresses :
          LET p == sessionDelegates[d]
          IN  (p # ZeroAddress /\ sessionDelegates'[d] # p) => revokeSessionKey(p, d)]_vars

\* C16: revokeSessionKey(d) called by c succeeds exactly when
\* sessionDelegates[d] = c and fails with "Not your session key" otherwise:
\* when d was never registered, when d is registered to another address, and
\* when d itself is the caller.  A step that deletes an entry is the revoke
\* by the address stored in it, and changes no other entry.
C16_RevokeOnlyOwnEntry ==
    /\ [](\A c \in Addresses, d \in AllAddresses :
            /\ revokeSessionKeyErr(c, d) =
                  (IF sessionDelegates[d] = c THEN "ok" ELSE "Not your session key")
            /\ revokeSessionKeyErr(c, c) = "Not your session key")
    /\ [][\A d \in AllAddresses :
            (sessionDelegates[d] # ZeroAddress /\ sessionDelegates'[d] = ZeroAddress) =>
                /\ revokeSessionKey(sessionDelegates[d], d)
                /\ \A e \in AllAddresses \ {d} :
                      sessionDelegates'[e] = sessionDelegates[e]]_vars

\* the entry of a delegate that cashed a game out has been deleted, so that
\* nobody can revoke it now, and no other key is registered
C16_Witness ==
    \E g \in GameIds, d \in Addresses :
        /\ payouts[g] # <<>> /\ payouts[g][1].sender = d /\ d # games[g].player
        /\ \A e \in AllAddresses : sessionDelegates[e] = ZeroAddress
        /\ \A c \in Addresses : revokeSessionKeyErr(c, d) = "Not your session key"

\* C17: registerSessionKey(k) fails with "Session key cannot be zero" for the
\* zero address and with "Cannot delegate to self" when k is the caller, and
\* succeeds otherwise; a step that writes a non-zero entry is the register of
\* that key by the address written.  In every state the zero address has no
\* entry and no address is mapped to itself.
C17_RegisterRejectsZeroAndSelf ==
    /\ [](/\ sessionDelegates[ZeroAddress] = ZeroAddress
          /\ \A a \in Addresses : sessionDelegates[a] # a
          /\ \A c \in Addresses, k \in AllAddresses :
                registerSessionKeyErr(c, k) =
                    (IF k = ZeroAddress THEN "Session key cannot be zero"
                     ELSE IF k = c THEN "Cannot delegate to self"
                     ELSE "ok"))
    /\ [][\A k \in AllAddresses :
            (sessionDelegates'[k] # sessionDelegates[k]
                /\ sessionDelegates'[k] # ZeroAddress) =>
                /\ k # ZeroAddress /\ sessionDelegates'[k] # k
                /\ registerSessionKey(sessionDelegates'[k], k)]_vars

\* the owner has taken over a key that acted for a player before: the key is
\* mapped to the owner, and it can register neither itself nor the zero address
C17_Witness ==
    \E g \in GameIds, k \in Addresses :
        /\ payouts[g] # <<>> /\ payouts[g][1].sender = k /\ k # games[g].player
        /\ sessionDelegates[k] = Owner
        /\ registerSessionKeyErr(k, k) = "Cannot delegate to self"
        /\ registerSessionKeyErr(k, ZeroAddress) = "Session key cannot be zero"

\* what execute answers to the owner for a pending record
ExecuteErrFor(pending) ==
    IF pending.changeTime = 0 THEN "No pending change"
    ELSE IF now < pending.changeTime THEN "Timelock not expired"
    ELSE "ok"

\* C18: for the owner, executeMineProbabilityChange and
\* executeRewardMultiplierChange fail with "No pending change" when changeTime
\* is 0 and with "Timelock not expired" when now < changeTime, and succeed when
\* now >= changeTime; a successful execute sets the parameter to the pending
\* value and clears the record, after which execute fails with "No pending
\* change"; no other step changes a parameter.
C18_ExecuteAfterTimelock ==
    /\ [](/\ executeMineProbabilityChangeErr(Owner) = ExecuteErrFor(pendingMineProbability)
          /\ executeRewardMultiplierChangeErr(Owner) = ExecuteErrFor(pendingRewardMultiplier))
    /\ [][/\ executeMineProbabilityChange(Owner) =>
                /\ pendingMineProbability.changeTime > 0
                /\ now >= pendingMineProbability.changeTime
                /\ MINE_PROBABILITY' = pendingMineProbability.newValue
                /\ pendingMineProbability' = NoPendingChange
                /\ ExecuteErrFor(pendingMineProbability)' = "No pending change"
          /\ executeRewardMultiplierChange(Owner) =>
                /\ pendingRewardMultiplier.changeTime > 0
                /\ now >= pendingRewardMultiplier.changeTime
                /\ REWARD_MULTIPLIER' = pendingRewardMultiplier.newValue
                /\ pendingRewardMultiplier' = NoPendingChange
                /\ ExecuteErrFor(pendingRewardMultiplier)' = "No pending change"
          /\ MINE_PROBABILITY' # MINE_PROBABILITY => executeMineProbabilityChange(Owner)
          /\ REWARD_MULTIPLIER' # REWARD_MULTIPLIER =>
                executeRewardMultiplierChange(Owner)]_vars

\* the mine probability was changed by an execute after the delay and its
\* record is clear, while the multiplier change proposed later is still locked
C18_Witness ==
    /\ MINE_PROBABILITY # InitialMineProbability
    /\ pendingMineProbability = NoPendingChange
    /\ executeMineProbabilityChangeErr(Owner) = "No pending change"
    /\ pendingRewardMultiplier.changeTime > now
    /\ executeRewardMultiplierChangeErr(Owner) = "Timelock not expired"

\* C19: MINE_PROBABILITY stays within [100, 5000] and REWARD_MULTIPLIER within
\* [10000, 20000]; for the owner a propose with a value outside these bounds
\* fails with "... out of allowed range" and one with a value inside succeeds,
\* so that a pending record only ever holds a value within the bounds.
C19_ParametersInBounds ==
    /\ [](/\ MINE_PROBABILITY >= MIN_MINE_PROBABILITY
          /\ MINE_PROBABILITY <= MAX_MINE_PROBABILITY
          /\ REWARD_MULTIPLIER >= MIN_REWARD_MULTIPLIER
          /\ REWARD_MULTIPLIER <= MAX_REWARD_MULTIPLIER
          /\ pendingMineProbability.changeTime > 0 =>
                pendingMineProbability.newValue \in MIN_MINE_PROBABILITY..MAX_MINE_PROBABILITY
          /\ pendingRewardMultiplier.changeTime > 0 =>
                pendingRewardMultiplier.newValue \in
                    MIN_REWARD_MULTIPLIER..MAX_REWARD_MULTIPLIER
          /\ \A v \in MineProposals \cup {0, 100, 5000, 5001} :
                proposeMineProbabilityChangeErr(Owner, v) =
                    (IF v \in 100..5000 THEN "ok" ELSE "Probability out of allowed range")
          /\ \A v \in MultiplierProposals \cup {9999, 20000} :
                proposeRewardMultiplierChangeErr(Owner, v) =
                    (IF v \in 10000..20000 THEN "ok" ELSE "Multiplier out of allowed range"))
    /\ [][/\ (pendingMineProbability' # pendingMineProbability
                  /\ pendingMineProbability' # NoPendingChange) =>
                \E v \in MineProposals :
                    /\ v \in 100..5000
                    /\ proposeMineProbabilityChange(Owner, v)
          /\ (pendingRewardMultiplier' # pendingRewardMultiplier
                  /\ pendingRewardMultiplier' # NoPendingChange) =>
                \E v \in MultiplierProposals :
                    /\ v \in 10000..20000
                    /\ proposeRewardMultiplierChange(Owner, v)]_vars

\* both parameters were changed by an execute and are within their bounds, and
\* proposals just outside the bounds are rejected
C19_Witness ==
    /\ MINE_PROBABILITY = 3000 /\ REWARD_MULTIPLIER = 10000
    /\ proposeMineProbabilityChangeErr(Owner, 99) = "Probability out of allowed range"
    /\ proposeRewardMultiplierChangeErr(Owner, 20001) = "Multiplier out of allowed range"

\* C20: cancelPendingChange called by the owner is enabled in every state,
\* for either parameter; it leaves that parameter's record empty and changes
\* neither parameter nor the other record; while a record is empty execute
\* fails with "No pending change", and only a propose fills it again.
C20_CancelAlwaysClears ==
    /\ [](/\ \A b \in BOOLEAN : ENABLED cancelPendingChange(Owner, b)
          /\ pendingMineProbability = NoPendingChange =>
                executeMineProbabilityChangeErr(Owner) = "No pending change"
          /\ pendingRewardMultiplier = NoPendingChange =>
                executeRewardMultiplierChangeErr(Owner) = "No pending change")
    /\ [][/\ cancelPendingChange(Owner, TRUE) =>
                /\ pendingMineProbability' = NoPendingChange
                /\ UNCHANGED <<MINE_PROBABILITY, REWARD_MULTIPLIER, pendingRewardMultiplier>>
          /\ cancelPendingChange(Owner, FALSE) =>
                /\ pendingRewardMultiplier' = NoPendingChange
                /\ UNCHANGED <<MINE_PROBABILITY, REWARD_MULTIPLIER, pendingMineProbability>>
          /\ (pendingMineProbability = NoPendingChange
                  /\ pendingMineProbability' # NoPendingChange) =>
                \E v \in MineProposals : proposeMineProbabilityChange(Owner, v)
          /\ (pendingRewardMultiplier = NoPendingChange
                  /\ pendingRewardMultiplier' # NoPendingChange) =>
                \E v \in MultiplierProposals : proposeRewardMultiplierChange(Owner, v)]_vars

\* a mine-probability change whose timelock has elapsed is pending and no
\* multiplier change is; the owner's cancel of either can be taken from here,
\* the first clearing the record without applying the value
C20_Witness ==
    /\ pendingMineProbability.changeTime > 0
    /\ now >= pendingMineProbability.changeTime
    /\ pendingMineProbability.newValue # MINE_PROBABILITY
    /\ pendingRewardMultiplier = NoPendingChange
    /\ ENABLED (/\ cancelPendingChange(Owner, TRUE)
                /\ pendingMineProbability' = NoPendingChange
                /\ MINE_PROBABILITY' = MINE_PROBABILITY)
    /\ ENABLED cancelPendingChange(Owner, FALSE)

\* C21: for every caller but the owner, propose, execute and cancel fail
\* (OwnableUnauthorizedAccount; cancel is not enabled), and a step that changes
\* a parameter or a pending record is a propose, execute or cancel called by
\* the owner.
C21_OnlyOwnerGoverns ==
    /\ [](\A c \in Addresses \ {Owner} :
            /\ \A v \in MineProposals \cup {MINE_PROBABILITY} :
                  proposeMineProbabilityChangeErr(c, v) = "OwnableUnauthorizedAccount"
            /\ \A v \in MultiplierProposals \cup {REWARD_MULTIPLIER} :
                  proposeRewardMultiplierChangeErr(c, v) = "OwnableUnauthorizedAccount"
            /\ executeMineProbabilityChangeErr(c) = "OwnableUnauthorizedAccount"
            /\ executeRewardMultiplierChangeErr(c) = "OwnableUnauthorizedAccount"
            /\ \A b \in BOOLEAN : ~ENABLED cancelPendingChange(c, b))
    /\ [][govVars' # govVars =>
              \/ \E v \in MineProposals : proposeMineProbabilityChange(Owner, v)
              \/ \E v \in MultiplierProposals : proposeRewardMultiplierChange(Owner, v)
              \/ executeMineProbabilityChange(Owner)
              \/ executeRewardMultiplierChange(Owner)
              \/ \E b \in BOOLEAN : cancelPendingChange(Owner, b)]_vars

\* a change whose timelock has elapsed is pending while a player, who is not
\* the owner, has a game and a delegate; the player can neither execute nor
\* cancel it
C21_Witness ==
    \E g \in GameIds, d \in Addresses :
        /\ pendingMineProbability.changeTime > 0
        /\ now >= pendingMineProbability.changeTime
        /\ Exists(games[g]) /\ games[g].player # Owner
        /\ sessionDelegates[d] = games[g].player
        /\ executeMineProbabilityChangeErr(games[g].player) = "OwnableUnauthorizedAccount"
        /\ ~ENABLED cancelPendingChange(games[g].player, TRUE)
        /\ ~ENABLED cancelPendingChange(d, TRUE)

\* C22: startGame fails with "Sent value must cover fee + bet" when the value
\* sent does not exceed the fee; a step that creates a game stores the caller as
\* player, a pot equal to the value sent minus the fee (what the contract's
\* balance grew by), which is positive, the commit given, zero pythSeed,
\* playerNonce and seed, an empty bitmap, isActive and neither isLost nor
\* nonceRevealed.
C22_StartCreatesFreshGame ==
    /\ [](\A s \in GameIds, v \in 0..PythFee :
            startGameErr(v, s) = "Sent value must cover fee + bet")
    /\ [][\A g \in GameIds :
            (games[g].player = ZeroAddress /\ games'[g] # games[g]) =>
                \E c \in Players, nc \in Commitments :
                    /\ balance' - balance > 0
                    /\ games'[g] =
                          [player |-> c, currentPot |-> balance' - balance,
                           nonceCommit |-> nc, pythSeed |-> 0, playerNonce |-> 0,
                           seed |-> 0, revealedCells |-> 0, isActive |-> TRUE,
                           isLost |-> FALSE, nonceRevealed |-> FALSE]
                    /\ startGame(c, PythFee + games'[g].currentPot, nc, g)]_vars

\* a game was just created with pot 10 out of a value of 11, and a start
\* with a value equal to the fee is rejected for the id still free
C22_Witness ==
    \E g1, g2 \in GameIds :
        /\ AwaitingRandomness(games[g1]) /\ g1 \in pendingRequests
        /\ games[g1].currentPot = 10 /\ balance = 10
        /\ ~Exists(games[g2])
        /\ startGameErr(PythFee, g2) = "Sent value must cover fee + bet"
        /\ startGameErr(PythFee + 10, g2) = "ok"

\* C23: a startGame whose sequence number is the id of an existing game fails
\* with "Game ID already exists" (the value sent being enough for the request
\* to be made), whatever state that game is in; no step is a startGame with
\* the id of an existing game, and no new request is made for such an id.
C23_DuplicateIdRejected ==
    /\ [](\A g \in GameIds, w \in Wagers :
            (games[g].player # ZeroAddress /\ w > 0) =>
                startGameErr(PythFee + w, g) = "Game ID already exists")
    /\ [][\A g \in GameIds :
            games[g].player # ZeroAddress =>
                /\ \A c \in Players, w \in Wagers, nc \in Commitments :
                      ~startGame(c, PythFee + w, nc, g)
                /\ g \notin pendingRequests => g \notin pendingRequests']_vars

\* both ids are taken, one by a game that has ended with a cell revealed and
\* one by a game being played; a start with either id is rejected
C23_Witness ==
    \E g1, g2 \in GameIds :
        /\ ~games[g1].isActive /\ games[g1].revealedCells # 0
        /\ Playing(games[g2])
        /\ \A g \in {g1, g2} : startGameErr(PythFee + 10, g) = "Game ID already exists"

\* the position of a game in its life: 0 not created, 1 awaiting randomness,
\* 2 awaiting the first reveal, 3 being played, 4 lost, 5 cashed out
Phase(gm) ==
    IF gm.player = ZeroAddress THEN 0
    ELSE IF gm.isLost THEN 4
    ELSE IF ~gm.isActive THEN 5
    ELSE IF gm.nonceRevealed THEN 3
    ELSE IF gm.pythSeed # ZeroBytes32 THEN 2
    ELSE 1

\* C24: a game never moves to an earlier phase of awaiting randomness ->
\* awaiting first reveal -> playing -> lost or cashed out; a lost game is not
\* active and was never paid, a cashed-out game was played and paid once, so
\* the two ends exclude each other; a lost or cashed-out game stays what it is
\* and keeps isActive, isLost, currentPot, revealedCells, playerNonce and seed.
C24_LifecycleOnlyForward ==
    /\ [](\A g \in GameIds :
            LET gm == games[g]
            IN  /\ gm.isLost => (~gm.isActive /\ payouts[g] = <<>>)
                /\ gm.nonceRevealed => gm.pythSeed # ZeroBytes32
                /\ gm.isActive => (gm.player # ZeroAddress /\ payouts[g] = <<>>)
                /\ Phase(gm) = 5 => (gm.nonceRevealed /\ Len(payouts[g]) = 1))
    /\ [][\A g \in GameIds :
            LET gm == games[g]
                gn == games'[g]
            IN  /\ Phase(gn) >= Phase(gm)
                /\ Phase(gm) = 1 => Phase(gn) \in {1, 2}
                /\ Phase(gm) \in {4, 5} =>
                      /\ Phase(gn) = Phase(gm)
                      /\ gn.isActive = gm.isActive /\ gn.isLost = gm.isLost
                      /\ gn.currentPot = gm.currentPot
                      /\ gn.revealedCells = gm.revealedCells
                      /\ gn.playerNonce = gm.playerNonce /\ gn.seed = gm.seed]_vars

\* a day after the start one game is cashed out and the other lost, each with
\* a cell revealed
C24_Witness ==
    \E g1, g2 \in GameIds :
        /\ Phase(games[g1]) = 5 /\ games[g1].revealedCells # 0
        /\ Phase(games[g2]) = 4 /\ games[g2].revealedCells # 0
        /\ now > 1

\* C25 as stated: once the nonce of a game is revealed, a revealCell that
\* passes a non-zero nonce fails.
C25_NonZeroNonceFailsAfterReveal ==
    \A g \in GameIds, c \in Addresses, xy \in CellInputs, n \in Nonces \ {ZeroBytes32} :
        games[g].nonceRevealed => revealCellErr(games[g], c, xy[1], xy[2], n) # "ok"

\* C25 amended: once the nonce of a game is revealed, revealCell does not
\* look at its nonce argument: with a zero and with any non-zero nonce it
\* fails or succeeds alike, with the same error and the same stores, which
\* keep the stored nonce and the seed; it needs a non-zero seed, which a
\* revealed game always has.
C25_NonceIgnoredAfterReveal ==
    \A g \in GameIds, c \in Addresses, xy \in CellInputs, n \in Nonces :
        games[g].nonceRevealed =>
            /\ games[g].seed # ZeroBytes32
            /\ revealCellErr(games[g], c, xy[1], xy[2], n) =
                  revealCellErr(games[g], c, xy[1], xy[2], ZeroBytes32)
            /\ revealCellErr(games[g], c, xy[1], xy[2], n) = "ok" =>
                  LET gn == revealCellGame(games[g], xy[1], xy[2], n)
                  IN  /\ gn = revealCellGame(games[g], xy[1], xy[2], ZeroBytes32)
                      /\ gn.playerNonce = games[g].playerNonce
                      /\ gn.seed = games[g].seed

\* a game is being played with one cell revealed, and its delegate may reveal
\* the other cell passing a non-zero nonce that is not the revealed one
C25_Witness ==
    \E g \in GameIds, d \in Addresses, xy \in ValidCells, n \in Nonces :
        /\ Playing(games[g]) /\ RevealedCount(games[g]) = 1
        /\ d # games[g].player
        /\ n # ZeroBytes32 /\ n # games[g].playerNonce
        /\ revealCellErr(games[g], d, xy[1], xy[2], n) = "ok"

\* C26 as stated: on a game awaiting its first reveal, for every nonce,
\* revealNonce succeeds exactly when the reveal of revealCell succeeds, and
\* both store the same nonce, flag and seed.
C26_InlineEqualsStandalone ==
    \A g \in GameIds, c \in Addresses, xy \in ValidCells, n \in Nonces :
        (AwaitingFirstReveal(games[g]) /\ Authorized(games[g], c)) =>
            /\ (revealNonceErr(games[g], c, n) = "ok") <=>
                  (revealCellErr(games[g], c, xy[1], xy[2], n) = "ok")
            /\ revealNonceErr(games[g], c, n) = "ok" =>
                  inlineReveal(games[g], n) = revealNonceGame(games[g], n)

\* C26 amended: on a game awaiting its first reveal, for every non-zero
\* nonce, revealNonce and the reveal of revealCell (on a cell of the grid)
\* fail or succeed alike, with the same error, and whenever revealNonce
\* succeeds both store the same nonce, flag and seed; with the zero nonce
\* revealNonce succeeds when zero is the committed nonce, while revealCell
\* fails with "Nonce required for first reveal".
C26_InlineEqualsStandaloneNonZero ==
    \A g \in GameIds, c \in Addresses, xy \in ValidCells, n \in Nonces :
        (AwaitingFirstReveal(games[g]) /\ Authorized(games[g], c)) =>
            /\ n # ZeroBytes32 =>
                  revealCellErr(games[g], c, xy[1], xy[2], n) = revealNonceErr(games[g], c, n)
            /\ n = ZeroBytes32 =>
                  /\ revealCellErr(games[g], c, xy[1], xy[2], n) =
                        "Nonce required for first reveal"
                  /\ (revealNonceErr(games[g], c, n) = "ok") <=>
                        (games[g].nonceCommit = KeccakNonce(ZeroBytes32))
            /\ revealNonceErr(games[g], c, n) = "ok" =>
                  LET a == inlineReveal(games[g], n)
                      b == revealNonceGame(games[g], n)
                  IN  /\ a = b
                      /\ a.playerNonce = n /\ a.nonceRevealed
                      /\ a.seed = KeccakSeed(games[g].pythSeed, n, games[g].player)

\* one game awaits its first reveal with a non-zero nonce committed and a
\* delegate registered, the other was revealed by revealNonce (no cell yet)
C26_Witness ==
    \E g1, g2 \in GameIds, d \in Addresses :
        /\ AwaitingFirstReveal(games[g1])
        /\ games[g1].nonceCommit # KeccakNonce(ZeroBytes32)
        /\ d # games[g1].player /\ Authorized(games[g1], d)
        /\ games[g2].nonceRevealed /\ games[g2].revealedCells = 0
        /\ games[g2].playerNonce # ZeroBytes32

\* the seeds a game of the model can have
ModelSeeds ==
    {KeccakSeed(r, n, p) : r \in RandomNumbers, n \in Nonces, p \in Players}

\* uint256(keccak256(seed, x, y)) % 10000
Residue(seed, x, y) == KeccakCell(seed, x, y) % 10000

C28_PlayerAndCommitImmutable ==
    [][\A g \in GameIds :
          games[g].player # ZeroAddress =>
              /\ games'[g].player = games[g].player
              /\ games'[g].nonceCommit = games[g].nonceCommit]_vars

\* one game was cashed out and the other lost; both still have their player
\* and the commit that their revealed nonce hashes to, with different commits
C28_Witness ==
    \E g1, g2 \in GameIds :
        /\ CashedOut(games[g1]) /\ payouts[g1] # <<>>
        /\ games[g2].isLost
        /\ games[g1].nonceCommit # games[g2].nonceCommit
        /\ \A g \in {g1, g2} :
              /\ games[g].player \in Players
              /\ games[g].nonceCommit = KeccakNonce(games[g].playerNonce)

\* C29: the step in which the request of game s is fulfilled stores a random
\* number in the pythSeed of game s and changes nothing else: no other field
\* of that game, no other game, nor the delegates, the parameters, the pending
\* records, the balance or the payouts.
C29_CallbackFrame ==
    [][\A s \in GameIds :
          (s \in pendingRequests /\ s \notin pendingRequests') =>
              /\ \E r \in RandomNumbers : games' = [games EXCEPT ![s].pythSeed = r]
              /\ \A g \in GameIds \ {s} : games'[g] = games[g]
              /\ UNCHANGED <<sessionDelegates, govVars, now, balance, payouts>>]_vars

\* the random number of one game has arrived while the other game, started
\* earlier or later, is still waiting, a delegate is registered and a
\* parameter change is pending
C29_Witness ==
    \E g1, g2 \in GameIds, d \in Addresses :
        /\ AwaitingFirstReveal(games[g1]) /\ g1 \notin pendingRequests
        /\ AwaitingRandomness(games[g2]) /\ g2 \in pendingRequests
        /\ sessionDelegates[d] = games[g1].player
        /\ pendingRewardMultiplier.changeTime > 0

\* C30: on a game whose random number has arrived and whose nonce is not
\* revealed, cashOut fails for every caller ("Nonce must be revealed first"
\* for an authorized one) and nothing was paid; a step that changes the game
\* is a revealNonce or a revealCell called by the player or a delegate of the
\* player with a nonce that hashes to the commit; every other step, the
\* passing of time included, leaves it active with its pot.
C30_UnrevealedStaysPending ==
    /\ [](\A g \in GameIds :
            AwaitingFirstReveal(games[g]) =>
                /\ payouts[g] = <<>> /\ games[g].currentPot > 0
                /\ \A c \in Addresses :
                      /\ cashOutErr(games[g], c) # "ok"
                      /\ (c = games[g].player \/ sessionDelegates[c] = games[g].player) =>
                            cashOutErr(games[g], c) = "Nonce must be revealed first")
    /\ [][\A g \in GameIds :
            (AwaitingFirstReveal(games[g]) /\ games'[g] # games[g]) =>
                LET n == games'[g].playerNonce
                IN  /\ games'[g].nonceRevealed
                    /\ KeccakNonce(n) = games[g].nonceCommit
                    /\ \E c \in Addresses :
                          /\ c = games[g].player \/ sessionDelegates[c] = games[g].player
                          /\ \/ revealNonce(c, g, n)
                             \/ \E xy \in ValidCells : revealCell(c, g, xy[1], xy[2], n)]_vars

\* a day after its start a game with its random number still awaits the
\* reveal, with its pot of 10 and a delegate registered, while the other game
\* was cashed out
C30_Witness ==
    \E g1, g2 \in GameIds, d \in Addresses :
        /\ AwaitingFirstReveal(games[g1]) /\ now > 1
        /\ games[g1].currentPot = 10
        /\ d # games[g1].player /\ sessionDelegates[d] = games[g1].player
        /\ cashOutErr(games[g1], d) = "Nonce must be revealed first"
        /\ CashedOut(games[g2]) /\ payouts[g2] # <<>>

\* C31: an operation whose requires fail takes no step: for every caller and
\* argument, startGame, revealNonce, revealCell, cashOut, registerSessionKey,
\* revokeSessionKey, the proposes and the executes are not enabled when their
\* error is not "ok", and a cashOut or withdrawHouseFunds whose transfer fails
\* changes nothing.  Conversely every change of the games, the delegates, the
\* parameters, the pending records, the balance or the requests is the whole
\* effect of an operation whose requires all pass; in particular the nonce
\* flag and the seed of a game are set only by a reveal that succeeds.
C31_FailureChangesNothing ==
    /\ [](/\ \A c \in Addresses, k \in AllAddresses :
                /\ registerSessionKeyErr(c, k) # "ok" => ~ENABLED registerSessionKey(c, k)
                /\ revokeSessionKeyErr(c, k) # "ok" => ~ENABLED revokeSessionKey(c, k)
          /\ \A c \in Players, w \in Wagers, nc \in Commitments, g \in GameIds :
                startGameErr(PythFee + w, g) # "ok" => ~ENABLED startGame(c, PythFee + w, nc, g)
          /\ \A c \in Addresses, g \in GameIds, n \in Nonces :
                /\ revealNonceErr(games[g], c, n) # "ok" => ~ENABLED revealNonce(c, g, n)
                /\ \A xy \in CellInputs :
                      revealCellErr(games[g], c, xy[1], xy[2], n) # "ok" =>
                          ~ENABLED revealCell(c, g, xy[1], xy[2], n)
          /\ \A c \in Addresses, g \in GameIds, accepts \in BOOLEAN :
                /\ cashOutErr(games[g], c) # "ok" => ~ENABLED cashOut(c, g, accepts)
                /\ (cashOutErr(games[g], c) = "ok"
                        /\ cashOutResult(c, g, accepts).err # "ok") =>
                      ~ENABLED (cashOut(c, g, accepts) /\ vars' # vars)
          /\ \A c \in Addresses :
                /\ ~ENABLED (withdrawHouseFunds(c, FALSE) /\ vars' # vars)
                /\ \A v \in MineProposals :
                      proposeMineProbabilityChangeErr(c, v) # "ok" =>
                          ~ENABLED proposeMineProbabilityChange(c, v)
                /\ \A v \in MultiplierProposals :
                      proposeRewardMultiplierChangeErr(c, v) # "ok" =>
                          ~ENABLED proposeRewardMultiplierChange(c, v)
                /\ executeMineProbabilityChangeErr(c) # "ok" =>
                      ~ENABLED executeMineProbabilityChange(c)
                /\ executeRewardMultiplierChangeErr(c) # "ok" =>
                      ~ENABLED executeRewardMultiplierChange(c))
    /\ [][/\ \A k \in AllAddresses :
                sessionDelegates'[k] # sessionDelegates[k] =>
                    \E c \in Addresses :
                        \/ /\ registerSessionKeyErr(c, k) = "ok"
                           /\ sessionDelegates' = [sessionDelegates EXCEPT ![k] = c]
                        \/ /\ revokeSessionKeyErr(c, k) = "ok"
                           /\ sessionDelegates' = [sessionDelegates EXCEPT ![k] = ZeroAddress]
          /\ \A g \in GameIds :
                games'[g] # games[g] =>
                    \/ \E c \in Players, w \in Wagers, nc \in Commitments :
                          /\ startGameErr(PythFee + w, g) = "ok"
                          /\ games'[g] = newGame(c, w, nc)
                          /\ balance' = balance + w
                    \/ \E r \in RandomNumbers :
                          g \in pendingRequests /\ games'[g] = [games[g] EXCEPT !.pythSeed = r]
                    \/ \E c \in Addresses, n \in Nonces :
                          \/ /\ revealNonceErr(games[g], c, n) = "ok"
                             /\ games'[g] = revealNonceGame(games[g], n)
                          \/ \E xy \in CellInputs :
                                /\ revealCellErr(games[g], c, xy[1], xy[2], n) = "ok"
                                /\ games'[g] = revealCellGame(games[g], xy[1], xy[2], n)
                    \/ \E c \in Addresses :
                          /\ cashOutErr(games[g], c) = "ok"
                          /\ cashOutResult(c, g, TRUE).err = "ok"
                          /\ games' = cashOutResult(c, g, TRUE).games
                          /\ balance' = cashOutResult(c, g, TRUE).balance
          /\ (balance' # balance \/ pendingRequests' # pendingRequests) =>
                \/ \E g \in GameIds : games'[g] # games[g]
                \/ balance' = 0 /\ onlyOwnerErr(Owner) = "ok"
                      /\ pendingRequests' = pendingRequests
          /\ govVars' # govVars =>
                \/ \E v \in MineProposals :
                      /\ proposeMineProbabilityChangeErr(Owner, v) = "ok"
                      /\ proposeMineProbabilityChange(Owner, v)
                \/ \E v \in MultiplierProposals :
                      /\ proposeRewardMultiplierChangeErr(Owner, v) = "ok"
                      /\ proposeRewardMultiplierChange(Owner, v)
                \/ /\ executeMineProbabilityChangeErr(Owner) = "ok"
                   /\ executeMineProbabilityChange(Owner)
                \/ /\ executeRewardMultiplierChangeErr(Owner) = "ok"
                   /\ executeRewardMultiplierChange(Owner)
                \/ \E b \in BOOLEAN : cancelPendingChange(Owner, b)]_vars

\* a state in which calls of six kinds fail: a first revealCell with a nonce
\* that is not the committed one, a start with the id of an existing game,
\* a cashOut before the reveal, a revoke of a key registered to another
\* address, an execute before the timelock and a propose out of range
C31_Witness ==
    \E g \in GameIds, d \in Addresses, n \in Nonces :
        /\ AwaitingFirstReveal(games[g])
        /\ revealCellErr(games[g], games[g].player, 0, 1, n) = "Invalid nonce: commit mismatch"
        /\ ~games[g].nonceRevealed /\ games[g].seed = ZeroBytes32
        /\ startGameErr(PythFee + 10, g) = "Game ID already exists"
        /\ cashOutErr(games[g], games[g].player) = "Nonce must be revealed first"
        /\ sessionDelegates[d] = Owner
        /\ revokeSessionKeyErr(games[g].player, d) = "Not your session key"
        /\ executeMineProbabilityChangeErr(Owner) = "Timelock not expired"
        /\ proposeRewardMultiplierChangeErr(Owner, 20001) = "Multiplier out of allowed range"

\* the pot of a game that is still active, 0 for any other game
ActivePot(g) == IF games[g].isActive THEN games[g].currentPot ELSE 0

RECURSIVE SumActivePots(_)
SumActivePots(S) ==
    IF S = {} THEN 0
    ELSE LET g == CHOOSE h \in S : TRUE
         IN  ActivePot(g) + SumActivePots(S \ {g})

\* a step in which the balance goes down without a payout: withdrawHouseFunds
WithdrawStep == balance' < balance /\ payouts' = payouts

\* C32: a withdrawHouseFunds step leaves in the contract the funds that back
\* the pots of the active games, as far as the contract held them
C32_WithdrawLeavesActivePots ==
    [][WithdrawStep =>
          \/ balance' >= SumActivePots(GameIds)
          \/ balance < SumActivePots(GameIds) /\ balance' = balance]_vars

\* C34: the balance of the contract covers the pots of all active games
C34_BalanceCoversActivePots == balance >= SumActivePots(GameIds)

\* C36: an active game's pot is at least the net wager of its start, hence
\* positive; the multiplier is never below BASE_DIVISOR, so a safe reveal
\* multiplies the pot to a value that is not smaller; and the pot of a game
\* goes down only in the step that loses it, where it becomes 0.
C36_PotMonotone ==
    /\ [](/\ REWARD_MULTIPLIER >= BASE_DIVISOR
          /\ \A g \in GameIds :
                games[g].isActive =>
                    \E w \in Wagers : w > 0 /\ games[g].currentPot >= w)
    /\ [][\A g \in GameIds :
             /\ ~Exists(games[g]) /\ Exists(games'[g]) =>
                   games'[g].currentPot \in Wagers \ {0}
             /\ Exists(games[g]) =>
                   /\ (games'[g].revealedCells # games[g].revealedCells
                          /\ ~games'[g].isLost) =>
                         /\ games'[g].currentPot =
                               (games[g].currentPot * REWARD_MULTIPLIER) \div BASE_DIVISOR
                         /\ games'[g].currentPot >= games[g].currentPot
                   /\ games'[g].currentPot < games[g].currentPot =>
                         /\ games'[g].currentPot = 0
                         /\ ~games[g].isLost /\ games'[g].isLost
                         /\ games'[g].revealedCells # games[g].revealedCells]_vars

\* one game grew past its wager by a safe reveal and is still active, the
\* other lost its pot on a mine
C36_Witness ==
    \E g, h \in GameIds :
        /\ games[g].isActive /\ games[g].revealedCells # 0
        /\ games[g].currentPot > 10
        /\ games[h].isLost /\ games[h].currentPot = 0

\* C37: a pending record is written only by a propose, which stores its value
\* with the deadline now + PARAM_CHANGE_DELAY whatever was pending before, or
\* cleared; a parameter changes only to the value of the pending record and
\* only when its deadline has passed.  So the value execute applies is the one
\* of the most recent propose and PARAM_CHANGE_DELAY has elapsed since then.
\* A propose is possible while a change is pending.
C37_ExecuteAppliesLatestPropose ==
    /\ [](/\ \A v \in GovMineProposals :
                ENABLED proposeMineProbabilityChange(Owner, v)
          /\ \A v \in GovMultiplierProposals :
                ENABLED proposeRewardMultiplierChange(Owner, v)
          /\ pendingMineProbability.changeTime <= now + PARAM_CHANGE_DELAY
          /\ pendingRewardMultiplier.changeTime <= now + PARAM_CHANGE_DELAY)
    /\ [][/\ pendingMineProbability' # pendingMineProbability =>
                /\ now' = now
                /\ \/ pendingMineProbability' = NoPendingChange
                   \/ \E v \in GovMineProposals :
                         pendingMineProbability' =
                             [newValue |-> v, changeTime |-> now + PARAM_CHANGE_DELAY]
          /\ pendingRewardMultiplier' # pendingRewardMultiplier =>
                /\ now' = now
                /\ \/ pendingRewardMultiplier' = NoPendingChange
                   \/ \E v \in GovMultiplierProposals :
                         pendingRewardMultiplier' =
                             [newValue |-> v, changeTime |-> now + PARAM_CHANGE_DELAY]
          /\ MINE_PROBABILITY' # MINE_PROBABILITY =>
                /\ pendingMineProbability.changeTime > 0
                /\ now >= pendingMineProbability.changeTime
                /\ MINE_PROBABILITY' = pendingMineProbability.newValue
                /\ pendingMineProbability' = NoPendingChange
          /\ REWARD_MULTIPLIER' # REWARD_MULTIPLIER =>
                /\ pendingRewardMultiplier.changeTime > 0
                /\ now >= pendingRewardMultiplier.changeTime
                /\ REWARD_MULTIPLIER' = pendingRewardMultiplier.newValue
                /\ pendingRewardMultiplier' = NoPendingChange]_vars

\* a change proposed half a delay after the start, when a proposal made at
\* the start is still locked, is pending: a full delay after the start it is
\* not executable, its own deadline being half a delay away
C37_Witness ==
    /\ MINE_PROBABILITY = InitialMineProbability
    /\ pendingMineProbability =
          [newValue |-> 4000, changeTime |-> 1 + HalfDelay + PARAM_CHANGE_DELAY]
    /\ now = 1 + PARAM_CHANGE_DELAY
    /\ executeMineProbabilityChangeErr(Owner) = "Timelock not expired"
    /\ REWARD_MULTIPLIER = 15000

\* every game operation of caller d on game gm fails as unauthorized
AllUnauthorized(gm, d) ==
    /\ \A n \in Nonces :
          /\ revealNonceErr(gm, d, n) = "Not authorized: Only Player or SessionKey"
          /\ \A xy \in CellInputs :
                revealCellErr(gm, d, xy[1], xy[2], n) =
                    "Not authorized: Only Player or SessionKey"
    /\ cashOutErr(gm, d) = "Not authorized: Only Player or SessionKey"

\* C38: in every state, an address d registered to the player of an existing
\* game is authorized on it, and an address that is neither the player nor
\* registered to the player fails revealNonce, revealCell and cashOut on it
\* as unauthorized.  The step in which p revokes d leaves d unauthorized on
\* all of p's games, the step in which d gets registered to p authorizes d
\* on all games p has started before, and an entry for p appears only by
\* registerSessionKey called by p.
C38_RevokedDelegateUnauthorized ==
    /\ [](\A d \in Addresses, g \in GameIds :
            Exists(games[g]) =>
                /\ sessionDelegates[d] = games[g].player => Authorized(games[g], d)
                /\ (d # games[g].player /\ sessionDelegates[d] # games[g].player) =>
                      AllUnauthorized(games[g], d))
    /\ [][\A d \in Addresses, g \in GameIds :
             (Exists(games[g]) /\ d # games[g].player) =>
                /\ (sessionDelegates[d] = games[g].player
                       /\ sessionDelegates'[d] # games[g].player) =>
                      /\ Authorized(games[g], d)
                      /\ AllUnauthorized(games[g], d)'
                /\ (sessionDelegates[d] # games[g].player
                       /\ sessionDelegates'[d] = games[g].player) =>
                      /\ AllUnauthorized(games[g], d)
                      /\ Authorized(games[g], d)'
                      /\ registerSessionKeyErr(games[g].player, d) = "ok"
                      /\ games' = games]_vars

\* the key 3 cashed out one game of its principal while registered and has
\* no entry now: on the principal's other game, which is being played, all
\* its calls fail
C38_Witness ==
    \E g, h \in GameIds, d \in SessionKeys :
        /\ Len(payouts[h]) = 1 /\ payouts[h][1].sender = d
        /\ games[g].player = games[h].player /\ d # games[g].player
        /\ Playing(games[g]) /\ games[g].revealedCells # 0
        /\ sessionDelegates[d] = ZeroAddress
        /\ AllUnauthorized(games[g], d)

\* the cells of CellInputs revealed in a game
RevealedCells(gm) ==
    {xy \in ValidCells : BitSet(gm.revealedCells, cellIndex(xy[1], xy[2]))}

\* C39: for a game that exists, is revealed and is not lost (so that every
\* cell revealed in it had a safe outcome) getRevealedSafeCells returns
\* exactly the revealed cells and getCellStatus reports isSafe for exactly
\* them; for a game that does not exist, is lost or is unrevealed
\* getRevealedSafeCells returns the empty array.
C39_ViewsReportSafeReveals ==
    \A g \in GameIds :
        IF Exists(games[g]) /\ ~games[g].isLost /\ games[g].nonceRevealed
        THEN /\ getRevealedSafeCells(g) = RevealedCells(games[g])
             /\ \A xy \in ValidCells :
                   /\ getCellStatus(g, xy[1], xy[2]).isSafe <=> xy \in RevealedCells(games[g])
                   /\ getCellStatus(g, xy[1], xy[2]).isRevealed <=> xy \in RevealedCells(games[g])
        ELSE getRevealedSafeCells(g) = {}

\* C33: whenever a game's nonce is revealed, its stored seed is the hash of
\* its stored pythSeed, its stored playerNonce and its player, whether or not
\* the gateway delivers the callback of the game again
C33_SeedMatchesStoredInputs ==
    \A g \in GameIds :
        games[g].nonceRevealed =>
            games[g].seed =
                KeccakSeed(games[g].pythSeed, games[g].playerNonce, games[g].player)

\* C35: while the transfer of cashOut(g) is in progress, cashOut by the
\* recipient fails on every game, with ReentrancyGuardReentrantCall on the
\* games the recipient is authorized for, revealNonce and revealCell by the
\* recipient on g fail with "Game finished", and g stays as cashOut left it;
\* no game is ever paid twice.
C35_NoReentrantMutation ==
    /\ [](/\ \A g \in GameIds : Len(payouts[g]) <= 1
          /\ frame # NoFrame =>
                /\ \A h \in GameIds :
                      /\ cashOutErr(games[h], Recipient) # "ok"
                      /\ Authorized(games[h], Recipient) =>
                            cashOutErr(games[h], Recipient) = "ReentrancyGuardReentrantCall"
                      /\ ~ENABLED cashOutBegin(Recipient, h)
                /\ \A n \in Nonces :
                      /\ revealNonceErr(games[frame.gameId], Recipient, n) = "Game finished"
                      /\ \A xy \in CellInputs :
                            revealCellErr(games[frame.gameId], Recipient, xy[1], xy[2], n) =
                                "Game finished"
                /\ games[frame.gameId] =
                      [frame.savedGames[frame.gameId] EXCEPT !.isActive = FALSE]
                /\ payouts[frame.gameId] = <<>>)
    /\ [][(frame # NoFrame /\ frame' # NoFrame) =>
             /\ frame' = frame
             /\ games'[frame.gameId] = games[frame.gameId]
             /\ balance' = balance /\ payouts' = payouts]_vars

\* inside the transfer of one game the recipient has revealed the nonce of
\* its other game, which now passes every check of cashOut but the guard,
\* and the balance would cover its pot
C35_Witness ==
    /\ frame # NoFrame
    /\ \E h \in GameIds \ {frame.gameId} :
          /\ games[h].player = Recipient
          /\ Playing(games[h])
          /\ games[h] # frame.savedGames[h]
          /\ balance >= games[h].currentPot
          /\ cashOutErrNoReentrancyGuard(games[h], Recipient) = "ok"

\* C40: the start flow leaves waiting_pyth for idle, after a poll whose read
\* succeeded, only if the contract has not stored the random number of the
\* game: once pythSeed is stored the poll detects it and the client goes to
\* waiting_nonce, whether or not the GameStarted event was captured.
C40_IdleOnlyWithoutFulfilment ==
    [][(/\ pollRead(FALSE)
        /\ client.status = "waiting_pyth"
        /\ client'.status = "idle") =>
           games[client.id].pythSeed = ZeroBytes32]_vars

====
